---- MODULE Spec2Model ----
(***************************************************************************)
(* Model of the speck viewer (speck-server.py): the dependency sorter of   *)
(* the server-side parser and the expand/collapse state machine of the     *)
(* client-side viewer.                                                     *)
(*                                                                         *)
(* Strings are sequences of one-character strings, so that split,          *)
(* startsWith and concatenation are computed as the code computes them.    *)
(***************************************************************************)
EXTENDS Integers, Sequences, FiniteSets, TLC

VARIABLES
    pc,          \* position of parse_module / sort_children
    children,    \* parse_module: children (list of child paths)
    child_deps,  \* parse_module: child_deps (name -> list of dependency names)
    in_deg,      \* sort_children: in_deg
    adj,         \* sort_children: adj
    queue,       \* sort_children: queue
    result,      \* sort_children: result
    graph,       \* viewer: graph (the snapshot fetched from /graph), null at first
    treeRoot,    \* viewer: the snapshot treeRoot and the boxes of the page were built from
    expanded,    \* viewer: expanded (set of module paths)
    collapsed,   \* viewer DOM: paths whose contents group has class "collapsed"
    arrows,      \* viewer DOM: the arrows drawn by updateArrows
    event,       \* the event the viewer handled last
    prev,        \* the event the viewer handled before that
    modBoxes,    \* viewer: modBoxes (module path -> box)
    fnBoxes,     \* viewer: fnBoxes (function id -> box)
    probe,       \* the last visibility query and its answer
    route,       \* the last arrow routed and its path
    files,       \* the .speck files on disk and the path the server was given
    parsed,      \* the result of parse_speck_tree and of buildTree on it
    currentVersion, \* viewer: currentVersion (the version token seen last), null at first
    initial,     \* viewer: position of the initial loadAndRender().then(...) chain
    poll,        \* viewer: position of the setInterval callback in progress
    client,      \* diagram editor: the globals of the page and the requests in flight
    server       \* diagram editor: the DiagramState of each level and its file

sortVars == <<pc, children, child_deps, in_deg, adj, queue, result>>

viewVars == <<graph, treeRoot, expanded, collapsed, arrows, event, prev, modBoxes, fnBoxes>>

routeVars == <<route>>

parseVars == <<files, parsed>>
pollVars == <<currentVersion, initial, poll>>
editVars == <<client, server>>

vars == <<pc, children, child_deps, in_deg, adj, queue, result,
          graph, treeRoot, expanded, collapsed, arrows, event, prev, modBoxes, fnBoxes,
          probe, route, files, parsed, currentVersion, initial, poll, client, server>>

----------------------------------------------------------------------------
(* Bounds *)

MaxChildren == 3   \* module declarations in one file
MaxDeps == 3       \* dependency names declared in one file, in total

----------------------------------------------------------------------------
(* Strings *)

SetMax(S) == CHOOSE x \in S : \A y \in S : y <= x

Str1(c) == <<c>>

\* s.startsWith(prefix)
StartsWith(s, prefix) ==
    /\ Len(prefix) <= Len(s)
    /\ SubSeq(s, 1, Len(prefix)) = prefix

\* positions of the separator character c in s
SepPositions(s, c) == {i \in 1..Len(s) : s[i] = c}

\* cp.split("/")[-1]
LastSegment(p) ==
    LET idx == SepPositions(p, "/")
        k == IF idx = {} THEN 0 ELSE SetMax(idx)
    IN SubSeq(p, k + 1, Len(p))

\* f"{mod_path}/{name}"
ChildPath(mod_path, name) == mod_path \o <<"/">> \o name

\* x in list
InList(x, list) == \E i \in 1..Len(list) : list[i] = x

SeqsUpTo(S, n) == UNION {[1..k -> S] : k \in 0..n}

----------------------------------------------------------------------------
(* Strings of the viewer *)

\* a + '/' + b
SlashJoin(a, b) == a \o <<"/">> \o b

\* modPath + '::' + fn
FnId(modPath, fn) == modPath \o <<":", ":">> \o fn

\* s.indexOf('::'), 0 when there is none (positions count from 1)
IndexOfColons(s) ==
    LET idx == {i \in 1..(Len(s) - 1) : s[i] = ":" /\ s[i + 1] = ":"}
    IN IF idx = {} THEN 0 ELSE CHOOSE i \in idx : \A j \in idx : i <= j

\* s.split('::')[0]
BeforeColons(s) ==
    LET k == IndexOfColons(s)
    IN IF k = 0 THEN s ELSE SubSeq(s, 1, k - 1)

\* s.split('/')
RECURSIVE Segments(_)
Segments(s) ==
    LET idx == SepPositions(s, "/")
    IN IF idx = {} THEN <<s>>
       ELSE LET k == CHOOSE i \in idx : \A j \in idx : i <= j
            IN <<SubSeq(s, 1, k - 1)>> \o Segments(SubSeq(s, k + 1, Len(s)))

\* segments.slice(0, n)
SliceFirst(segs, n) == SubSeq(segs, 1, IF n <= Len(segs) THEN n ELSE Len(segs))

\* segments.join('/')
RECURSIVE JoinSlash(_)
JoinSlash(segs) ==
    IF segs = <<>> THEN <<>>
    ELSE IF Len(segs) = 1 THEN segs[1]
    ELSE SlashJoin(JoinSlash(SubSeq(segs, 1, Len(segs) - 1)), segs[Len(segs)])

----------------------------------------------------------------------------
(* The snapshots the server can return *)

PR == Str1("r")
PA == ChildPath(PR, Str1("a"))
PAX == ChildPath(PA, Str1("x"))
PAXY == ChildPath(PAX, Str1("y"))
PAB == ChildPath(PR, <<"a", "b">>)
PB == ChildPath(PR, Str1("b"))

UPaths == {PR, PA, PAX, PAXY, PAB, PB}

\* declared children of a module file, in sorted order
UChildren(p) ==
    IF p = PR THEN <<PB, PAB, PA>>
    ELSE IF p = PA THEN <<PAX>>
    ELSE IF p = PAX THEN <<PAXY>>
    ELSE <<>>

\* declared functions of a module file
UFunctions(p) ==
    IF p = PR THEN <<Str1("m")>>
    ELSE IF p = PA THEN <<Str1("f")>>
    ELSE IF p = PAX THEN <<Str1("h"), Str1("i")>>
    ELSE IF p = PAB THEN <<Str1("k")>>
    ELSE IF p = PB THEN <<Str1("g")>>
    ELSE <<>>

\* call references found in the function bodies
UEdges ==
    << <<FnId(PB, Str1("g")), FnId(PA, Str1("f"))>>,
       <<FnId(PAX, Str1("h")), FnId(PA, Str1("f"))>>,
       <<FnId(PAB, Str1("k")), FnId(PAX, Str1("h"))>>,
       <<FnId(PB, Str1("g")), FnId(PA, Str1("f"))>>,
       <<FnId(PAX, Str1("h")), FnId(PAX, Str1("i"))>>,
       <<FnId(PR, Str1("m")), FnId(PB, Str1("g"))>> >>

UParent(p) == CHOOSE q \in UPaths : InList(p, UChildren(q))

\* the module sets of the source trees: the root and, with a module, its parent
Trees == {S \in SUBSET UPaths : PR \in S /\ \A p \in S \ {PR} : UParent(p) \in S}

\* the snapshot parse_speck_tree returns for a source tree
Snapshot(S) ==
    [modules |-> [p \in S |->
        [name |-> LastSegment(p),
         path |-> p,
         children |-> SelectSeq(UChildren(p), LAMBDA c : c \in S),
         functions |-> UFunctions(p),
         depth |-> Cardinality(SepPositions(p, "/"))]],
     function_edges |-> SelectSeq(UEdges, LAMBDA e : BeforeColons(e[1]) \in S),
     root |-> PR]

Graphs == {Snapshot(S) : S \in Trees}

\* var graph = null
NullGraph == [null |-> TRUE]

ModulePaths(g) == IF g = NullGraph THEN {} ELSE DOMAIN g.modules

----------------------------------------------------------------------------
(* Layout results as far as visibility needs them: which boxes exist *)

\* the keys of modBoxes after computePositions
ModBoxIds(g) == ModulePaths(g)

\* the keys of fnBoxes after computePositions
FnBoxIds(g) ==
    UNION {{FnId(p, g.modules[p].functions[i]) :
                i \in 1..Len(g.modules[p].functions)} : p \in ModulePaths(g)}

----------------------------------------------------------------------------
(* Layout.  Lengths are whole pixels. *)

PAD == 30
PAD_BOTTOM == 50
HEADER_H == 38
FN_H == 30
FN_GAP == 10
MOD_GAP == 60
SECTION_GAP == 20
FN_PAD_X == 14
MIN_MOD_W == 80
LABEL_SIZE == 13
FN_SIZE == 12
ARROW_W == 10

\* width of one character of the label font and of the function font
CharWidths == {0, 8, 60}
Measures == [label : CharWidths, fn : CharWidths]

\* the font of the browser the viewer runs in
BrowserMeasure == [label |-> 8, fn |-> 8]

\* measureText(text, fontSize) for the font metrics mw
measureText(mw, text, fontSize) ==
    Len(text) * (IF fontSize = LABEL_SIZE THEN mw.label ELSE mw.fn)

Max2(a, b) == IF a >= b THEN a ELSE b
Min2(a, b) == IF a <= b THEN a ELSE b

\* Math.max over the elements of a sequence of numbers, from the start value v
RECURSIVE MaxOver(_, _)
MaxOver(v, seq) == IF seq = <<>> THEN v ELSE MaxOver(Max2(v, Head(seq)), Tail(seq))

RECURSIVE SumOver(_)
SumOver(seq) == IF seq = <<>> THEN 0 ELSE Head(seq) + SumOver(Tail(seq))

\* variant of contentWidth: the children's width is left out
contentWidthNoChildren(labelW, fnMaxW, childrenW) ==
    Max2(Max2(labelW, fnMaxW), MIN_MOD_W)

\* Math.max(labelW, fnMaxW, childrenW, MIN_MOD_W)
contentWidth(labelW, fnMaxW, childrenW) ==
    Max2(Max2(labelW, fnMaxW), Max2(childrenW, MIN_MOD_W))

\* computeSize(node) for the node of path p: the fields it sets on the node
RECURSIVE computeSize(_, _, _)
computeSize(g, mw, p) ==
    LET node == g.modules[p]
        kids == [i \in 1..Len(node.children) |-> computeSize(g, mw, node.children[i])]
        labelW == measureText(mw, node.name, LABEL_SIZE) + 8
        fnMaxW == MaxOver(0, [i \in 1..Len(node.functions) |->
                                 measureText(mw, node.functions[i], FN_SIZE) + 2 * FN_PAD_X])
        fnAreaH == IF Len(node.functions) > 0
                   THEN Len(node.functions) * FN_H + (Len(node.functions) - 1) * FN_GAP
                   ELSE 0
        childrenW == SumOver([i \in 1..Len(kids) |-> kids[i].w])
                       + (IF Len(kids) > 1 THEN (Len(kids) - 1) * MOD_GAP ELSE 0)
        childrenH == MaxOver(0, [i \in 1..Len(kids) |-> kids[i].h])
        secGap == IF fnAreaH > 0 /\ childrenH > 0 THEN SECTION_GAP ELSE 0
    IN [w |-> contentWidth(labelW, fnMaxW, childrenW) + 2 * PAD,
        h |-> HEADER_H + fnAreaH + secGap + childrenH + PAD_BOTTOM,
        fnAreaH |-> fnAreaH,
        secGap |-> secGap]

EmptyMap == <<>>

\* the entries of fb that computePositions writes for the functions of p
FnBoxesOf(g, p, innerX, innerY, innerW) ==
    LET fns == g.modules[p].functions
    IN [id \in {FnId(p, fns[i]) : i \in 1..Len(fns)} |->
          LET i == SetMax({j \in 1..Len(fns) : FnId(p, fns[j]) = id})
          IN [x |-> innerX, y |-> innerY + (i - 1) * (FN_H + FN_GAP),
              w |-> innerW, h |-> FN_H, name |-> fns[i]]]

\* computePositions(node, x, y, fb, mb) for the node of path p: the entries
\* it and its recursive calls write to fb and mb
RECURSIVE computePositions(_, _, _, _, _)
computePositions(g, mw, p, x, y) ==
    LET sz == computeSize(g, mw, p)
        kids == g.modules[p].children
        innerX == x + PAD
        innerY == y + HEADER_H
        innerW == sz.w - 2 * PAD
        childY == innerY + sz.fnAreaH + sz.secGap
        childX(i) == innerX + SumOver([j \in 1..(i - 1) |->
                                          computeSize(g, mw, kids[j]).w + MOD_GAP])
        RECURSIVE Below(_)
        Below(i) ==
            IF i > Len(kids) THEN [fb |-> EmptyMap, mb |-> EmptyMap]
            ELSE LET c == computePositions(g, mw, kids[i], childX(i), childY)
                     rest == Below(i + 1)
                 IN [fb |-> rest.fb @@ c.fb, mb |-> rest.mb @@ c.mb]
        below == Below(1)
    IN [fb |-> below.fb @@ FnBoxesOf(g, p, innerX, innerY, innerW),
        mb |-> below.mb @@ (p :> [x |-> x, y |-> y, w |-> sz.w, h |-> sz.h])]

\* computeSize(treeRoot); computePositions(treeRoot, 0, 0, fnBoxes, modBoxes)
Layout(g, mw) == computePositions(g, mw, g.root, 0, 0)

----------------------------------------------------------------------------
(* Visibility logic.  E is the global set "expanded" at the time of the call *)

\* variant of the loop of isModVisible: only the root is tested
isModVisibleLoopRootOnly(E, segments, i, current) == current \in E

\* the loop of isModVisible from index i on
RECURSIVE isModVisibleLoop(_, _, _, _)
isModVisibleLoop(E, segments, i, current) ==
    IF i >= Len(segments) THEN TRUE
    ELSE IF current \notin E THEN FALSE
    ELSE isModVisibleLoop(E, segments, i + 1, SlashJoin(current, segments[i + 1]))

isModVisible(E, path) ==
    LET segments == Segments(path)
    IN IF Len(segments) <= 1 THEN TRUE
       ELSE isModVisibleLoop(E, segments, 1, segments[1])

isFnVisible(E, fnId) ==
    LET modPath == BeforeColons(fnId)
    IN isModVisible(E, modPath) /\ modPath \in E

\* variant of the loop of resolveVisible: the walk starts below the root
RECURSIVE resolveVisibleLoopSkipRoot(_, _, _, _, _)
resolveVisibleLoopSkipRoot(E, fnId, segments, i, current) ==
    IF i >= Len(segments) - 1
    THEN (IF current \in E THEN fnId ELSE current)
    ELSE IF i > 0 /\ current \notin E THEN current
    ELSE resolveVisibleLoopSkipRoot(E, fnId, segments, i + 1,
                                    JoinSlash(SliceFirst(segments, i + 2)))

\* the loop of resolveVisible from index i on (i counts from 0 as in the
\* code), and the two returns after it
RECURSIVE resolveVisibleLoop(_, _, _, _, _)
resolveVisibleLoop(E, fnId, segments, i, current) ==
    IF i >= Len(segments) - 1
    THEN (IF current \in E THEN fnId ELSE current)
    ELSE IF current \notin E THEN current
    ELSE resolveVisibleLoop(E, fnId, segments, i + 1,
                            JoinSlash(SliceFirst(segments, i + 2)))

\* variant of resolveVisible: the owning module is returned without a walk
resolveVisibleOwner(E, fnId) ==
    IF BeforeColons(fnId) \in E THEN fnId ELSE BeforeColons(fnId)

resolveVisible(E, fnId) ==
    LET segments == Segments(BeforeColons(fnId))
    IN resolveVisibleLoop(E, fnId, segments, 0, segments[1])

\* the ids of the boxes getVisibleObstacles collects
getVisibleObstacles(g, E) ==
    {path \in ModBoxIds(g) : isModVisible(E, path)}
        \cup {fnId \in FnBoxIds(g) : isFnVisible(E, fnId)}

\* updateVisibility: the contents groups that carry the class "collapsed"
updateVisibility(g, E) == {path \in ModulePaths(g) : path \notin E}

\* variant of ResolvedEdges: the test rSrc === rTgt is missing
ResolvedEdgesAll(g, E) ==
    {[src |-> resolveVisible(E, g.function_edges[i][1]),
      tgt |-> resolveVisible(E, g.function_edges[i][2])] :
         i \in 1..Len(g.function_edges)}

\* the first loop of updateArrows: the resolved edges, without the internal
\* ones and without duplicates
ResolvedEdges(g, E) ==
    LET rs == {[src |-> resolveVisible(E, g.function_edges[i][1]),
                tgt |-> resolveVisible(E, g.function_edges[i][2])] :
                   i \in 1..Len(g.function_edges)}
    IN {e \in rs : e.src # e.tgt}

\* edge.src.indexOf('::') !== -1 ? fnBoxes[id] : modBoxes[id], as "is defined"
HasBox(g, id) ==
    IF IndexOfColons(id) # 0 THEN id \in FnBoxIds(g) ELSE id \in ModBoxIds(g)

\* updateArrows: the arrows drawn, one per resolved edge whose boxes exist
updateArrows(g, E) ==
    {e \in ResolvedEdges(g, E) : HasBox(g, e.src) /\ HasBox(g, e.tgt)}

----------------------------------------------------------------------------
(* The viewer *)

NoEvent == [type |-> "none", path |-> <<>>, ctrl |-> FALSE, before |-> {}]

ViewIdle ==
    /\ graph = NullGraph
    /\ treeRoot = NullGraph
    /\ expanded = {}
    /\ collapsed = {}
    /\ arrows = {}
    /\ event = NoEvent
    /\ prev = NoEvent
    /\ modBoxes = EmptyMap
    /\ fnBoxes = EmptyMap
    /\ probe = [kind |-> "none"]

RouteIdle == route = [kind |-> "none"]

ParseIdle ==
    /\ files = [kind |-> "none"]
    /\ parsed = [kind |-> "none"]

\* var currentVersion = null; no request of the viewer is under way
NullVersion == [null |-> TRUE]

PollIdle ==
    /\ currentVersion = NullVersion
    /\ initial = [pc |-> "none"]
    /\ poll = [pc |-> "none"]

EditIdle ==
    /\ client = [kind |-> "none"]
    /\ server = [kind |-> "none"]

SortIdle ==
    /\ pc = "idle"
    /\ children = <<>>
    /\ child_deps = <<>>
    /\ in_deg = <<>>
    /\ adj = <<>>
    /\ queue = <<>>
    /\ result = <<>>

\* the page is open, the first /graph response has not arrived
Init == ViewIdle /\ SortIdle /\ RouteIdle /\ ParseIdle /\ PollIdle /\ EditIdle

\* the module boxes a click can hit: the boxes inside a contents group of
\* class "collapsed" ignore pointer events
Clickable(g, coll) ==
    LET RECURSIVE Under(_, _)
        Under(p, ok) ==
            {p} \cup (IF ok /\ p \notin coll
                      THEN UNION {Under(g.modules[p].children[i], TRUE) :
                                     i \in 1..Len(g.modules[p].children)}
                      ELSE {})
    IN IF g = NullGraph THEN {} ELSE Under(g.root, TRUE)

\* variant of WithinSubtree: startsWith(path) without the '/'
WithinSubtreeNoSlash(p, path) == p = path \/ StartsWith(p, path)

\* p === path || p.startsWith(path + '/')
WithinSubtree(p, path) == p = path \/ StartsWith(p, path \o <<"/">>)

\* variant of ClickResult: only the clicked path is removed on collapse
ClickResultShallow(g, E, path, ctrl) ==
    IF path \in E THEN E \ {path}
    ELSE IF ctrl THEN E \cup {modPath \in ModulePaths(g) : WithinSubtree(modPath, path)}
    ELSE E \cup {path}

\* variant of ClickResult: Ctrl/Meta is ignored
ClickResultNoCtrl(g, E, path, ctrl) ==
    IF path \in E THEN E \ {p \in E : WithinSubtree(p, path)}
    ELSE E \cup {path}

\* the three branches of the click handler: the new value of expanded
ClickResult(g, E, path, ctrl) ==
    IF path \in E THEN E \ {p \in E : WithinSubtree(p, path)}
    ELSE IF ctrl THEN E \cup {modPath \in ModulePaths(g) : WithinSubtree(modPath, path)}
    ELSE E \cup {path}

\* variant of ExpandAllResult: only the children of the root are added
ExpandAllResultOneLevel(g, E) ==
    E \cup {g.root} \cup {g.modules[g.root].children[i] : i \in 1..Len(g.modules[g.root].children)}

\* btn-expand: for (var p in graph.modules) expanded.add(p)
ExpandAllResult(g, E) == E \cup ModulePaths(g)

\* btn-collapse: expanded.clear(); expanded.add(graph.root)
CollapseAllResult(g) == {g.root}

Handled(type, path, ctrl) ==
    /\ event' = [type |-> type, path |-> path, ctrl |-> ctrl, before |-> expanded]
    /\ prev' = event

\* what updateArrows reads: the call references of graph and the boxes
\* computed for treeRoot
Rendered ==
    [modules |-> IF treeRoot = NullGraph THEN EmptyMap ELSE treeRoot.modules,
     function_edges |-> graph.function_edges,
     root |-> graph.root]

\* loadAndRender from the arrival of the /graph response on, in a browser
\* of font metrics mw
loadAndRender(g, mw) ==
    /\ graph' = g
    /\ treeRoot' = g
    /\ LET boxes == Layout(g, mw)
       IN /\ modBoxes' = boxes.mb
          /\ fnBoxes' = boxes.fb
    /\ expanded' = {g.root}
    /\ collapsed' = updateVisibility(g, {g.root})
    /\ arrows' = updateArrows(g, {g.root})

\* a snapshot arrives while nothing else of the page is under way
LoadWith(g, mw) ==
    /\ loadAndRender(g, mw)
    /\ Handled("load", <<>>, FALSE)
    /\ UNCHANGED <<sortVars, probe, routeVars, parseVars, pollVars, editVars>>

Load(g) == LoadWith(g, BrowserMeasure)

\* variant of Click: the boxes of the modules that are not visible are dropped
ClickRelayout(path, ctrl) ==
    /\ path \in Clickable(treeRoot, collapsed)
    /\ LET E == ClickResult(graph, expanded, path, ctrl)
       IN /\ expanded' = E
          /\ collapsed' = updateVisibility(treeRoot, E)
          /\ arrows' = updateArrows(Rendered, E)
          /\ modBoxes' = [p \in {q \in DOMAIN modBoxes : isModVisible(E, q)} |-> modBoxes[p]]
    /\ Handled("click", path, ctrl)
    /\ UNCHANGED <<graph, treeRoot, fnBoxes, sortVars, probe, routeVars, parseVars, pollVars, editVars>>

\* click on the module box of path, with or without Ctrl/Meta
Click(path, ctrl) ==
    /\ path \in Clickable(treeRoot, collapsed)
    /\ LET E == ClickResult(graph, expanded, path, ctrl)
       IN /\ expanded' = E
          /\ collapsed' = updateVisibility(treeRoot, E)
          /\ arrows' = updateArrows(Rendered, E)
    /\ Handled("click", path, ctrl)
    /\ UNCHANGED <<graph, treeRoot, modBoxes, fnBoxes, sortVars, probe, routeVars, parseVars, pollVars, editVars>>

\* click on "Expand All"
ExpandAll ==
    /\ graph # NullGraph
    /\ LET E == ExpandAllResult(graph, expanded)
       IN /\ expanded' = E
          /\ collapsed' = updateVisibility(treeRoot, E)
          /\ arrows' = updateArrows(Rendered, E)
    /\ Handled("expandAll", <<>>, FALSE)
    /\ UNCHANGED <<graph, treeRoot, modBoxes, fnBoxes, sortVars, probe, routeVars, parseVars, pollVars, editVars>>

\* click on "Collapse All"
CollapseAll ==
    /\ graph # NullGraph
    /\ LET E == CollapseAllResult(graph)
       IN /\ expanded' = E
          /\ collapsed' = updateVisibility(treeRoot, E)
          /\ arrows' = updateArrows(Rendered, E)
    /\ Handled("collapseAll", <<>>, FALSE)
    /\ UNCHANGED <<graph, treeRoot, modBoxes, fnBoxes, sortVars, probe, routeVars, parseVars, pollVars, editVars>>

\* a button is clicked before the first snapshot has arrived: nothing is
\* added to or left in expanded, and the handler stops with a TypeError
\* where it reads graph.root or graph.function_edges
ButtonBeforeLoad(type) ==
    /\ graph = NullGraph
    /\ Handled(type, <<>>, FALSE)
    /\ UNCHANGED <<graph, treeRoot, expanded, collapsed, arrows, modBoxes, fnBoxes, sortVars, probe, routeVars, parseVars, pollVars, editVars>>

Next ==
    \/ \E g \in Graphs : Load(g)
    \/ \E path \in UPaths, ctrl \in BOOLEAN : Click(path, ctrl)
    \/ ExpandAll
    \/ CollapseAll
    \/ \E type \in {"expandAll", "collapseAll"} : ButtonBeforeLoad(type)

Spec == Init /\ [][Next]_vars

----------------------------------------------------------------------------
(* The visibility functions applied to any Expanded-Set *)

\* function names an edge endpoint can carry: declared or not
ProbeFnNames == {Str1("f"), Str1("h"), Str1("i"), Str1("z")}

VisInit ==
    /\ SortIdle
    /\ graph \in Graphs
    /\ treeRoot = graph
    /\ expanded \in SUBSET ModulePaths(graph)
    /\ collapsed = updateVisibility(graph, expanded)
    /\ arrows = updateArrows(graph, expanded)
    /\ event = NoEvent
    /\ prev = NoEvent
    /\ modBoxes = Layout(graph, BrowserMeasure).mb
    /\ fnBoxes = Layout(graph, BrowserMeasure).fb
    /\ probe = [kind |-> "none"]
    /\ RouteIdle
    /\ ParseIdle
    /\ PollIdle
    /\ EditIdle

\* resolveVisible and isFnVisible are called for an endpoint of module mod
ProbeEndpoint(mod, fn) ==
    /\ probe' = [kind |-> "fn", mod |-> mod, id |-> FnId(mod, fn),
                 resolved |-> resolveVisible(expanded, FnId(mod, fn)),
                 visible |-> isFnVisible(expanded, FnId(mod, fn))]
    /\ UNCHANGED <<sortVars, viewVars, routeVars, parseVars, pollVars, editVars>>

\* isModVisible is called for a module path
ProbeModule(mod) ==
    /\ probe' = [kind |-> "mod", mod |-> mod, id |-> mod,
                 resolved |-> mod,
                 visible |-> isModVisible(expanded, mod)]
    /\ UNCHANGED <<sortVars, viewVars, routeVars, parseVars, pollVars, editVars>>

VisNext ==
    \/ \E mod \in ModulePaths(graph), fn \in ProbeFnNames : ProbeEndpoint(mod, fn)
    \/ \E mod \in ModulePaths(graph) : ProbeModule(mod)

VisSpec == VisInit /\ [][VisNext]_vars

----------------------------------------------------------------------------
(* The file being parsed: module r declares children named a, b, c *)

ParentPath == Str1("r")
SiblingNames == {Str1("a"), Str1("b"), Str1("c")}

\* child_deps.get(cname, [])
DepsGet(deps, cname) == IF cname \in DOMAIN deps THEN deps[cname] ELSE <<>>

\* number of dependency names declared in the file
TotalDeps(deps) ==
    LET RECURSIVE Sum(_)
        Sum(S) == IF S = {} THEN 0
                  ELSE LET n == CHOOSE n \in S : TRUE
                       IN Len(deps[n]) + Sum(S \ {n})
    IN Sum(DOMAIN deps)

----------------------------------------------------------------------------
(* sort_children *)

\* name_to_path = {cp.split("/")[-1]: cp for cp in children}: a later entry
\* of the same name replaces an earlier one
name_to_path(chs) ==
    [n \in {LastSegment(chs[i]) : i \in 1..Len(chs)} |->
        chs[SetMax({i \in 1..Len(chs) : LastSegment(chs[i]) = n})]]

\* the dependency paths one visit of cp appends to adj[cp]: the declared
\* names that name a sibling, in declaration order
dep_paths(cp, chs, deps) ==
    LET n2p == name_to_path(chs)
        ds == DepsGet(deps, LastSegment(cp))
        known == SelectSeq(ds, LAMBDA d : d \in DOMAIN n2p)
    IN [j \in 1..Len(known) |-> n2p[known[j]]]

\* in_deg[dep_path] += 1 for every element of dps
RECURSIVE incr_all(_, _)
incr_all(deg, dps) ==
    IF dps = <<>> THEN deg
    ELSE incr_all([deg EXCEPT ![Head(dps)] = @ + 1], Tail(dps))

\* the loop "for cp in children" that fills in_deg and adj
RECURSIVE build_edges(_, _, _, _, _)
build_edges(i, chs, deps, deg, ad) ==
    IF i > Len(chs) THEN [in_deg |-> deg, adj |-> ad]
    ELSE LET cp == chs[i]
             dps == dep_paths(cp, chs, deps)
         IN build_edges(i + 1, chs, deps, incr_all(deg, dps),
                        [ad EXCEPT ![cp] = @ \o dps])

\* variant of zero_queue: the in-degree test is dropped
zero_queue_all(chs, deg) == chs

\* queue = [cp for cp in children if in_deg[cp] == 0]
zero_queue(chs, deg) == SelectSeq(chs, LAMBDA cp : deg[cp] = 0)

\* variant of release: a dependency is queued at its first decrement
RECURSIVE release_early(_, _, _)
release_early(dps, deg, q) ==
    IF dps = <<>> THEN [in_deg |-> deg, queue |-> q]
    ELSE LET d == Head(dps)
             deg2 == [deg EXCEPT ![d] = @ - 1]
         IN release_early(Tail(dps), deg2, Append(q, d))

\* for dep in adj[node]: in_deg[dep] -= 1; if in_deg[dep] == 0: queue.append(dep)
RECURSIVE release(_, _, _)
release(dps, deg, q) ==
    IF dps = <<>> THEN [in_deg |-> deg, queue |-> q]
    ELSE LET d == Head(dps)
             deg2 == [deg EXCEPT ![d] = @ - 1]
         IN release(Tail(dps), deg2, IF deg2[d] = 0 THEN Append(q, d) ELSE q)

\* variant of append_rest: the fallback loop is missing
append_rest_none(i, chs, res) == res

\* variant of append_rest: the nodes left over are put in front
RECURSIVE append_rest_front(_, _, _)
append_rest_front(i, chs, res) ==
    IF i > Len(chs) THEN res
    ELSE IF InList(chs[i], res) THEN append_rest_front(i + 1, chs, res)
         ELSE <<chs[i]>> \o append_rest_front(i + 1, chs, res)

\* for cp in children: if cp not in result: result.append(cp)
RECURSIVE append_rest(_, _, _)
append_rest(i, chs, res) ==
    IF i > Len(chs) THEN res
    ELSE append_rest(i + 1, chs,
                     IF InList(chs[i], res) THEN res ELSE Append(res, chs[i]))

----------------------------------------------------------------------------
(* parse_module of one file, up to the call of sort_children *)

SortInit ==
    /\ pc = "parse"
    /\ children = <<>>
    /\ child_deps = <<>>
    /\ in_deg = <<>>
    /\ adj = <<>>
    /\ queue = <<>>
    /\ result = <<>>
    /\ ViewIdle
    /\ RouteIdle
    /\ ParseIdle
    /\ PollIdle
    /\ EditIdle

\* one match of the "mod name { deps }" pattern
DeclareMod(name, deps) ==
    /\ pc = "parse"
    /\ Len(children) < MaxChildren
    /\ LET cd == [n \in DOMAIN child_deps \cup {name} |->
                    IF n = name THEN deps ELSE child_deps[n]]
       IN /\ TotalDeps(cd) <= MaxDeps
          /\ child_deps' = cd
    /\ children' = Append(children, ChildPath(ParentPath, name))
    /\ UNCHANGED <<pc, in_deg, adj, queue, result, viewVars, probe, routeVars, parseVars, pollVars, editVars>>

\* sort_children is called: lines up to the start of the while loop
SortCall ==
    /\ pc = "parse"
    /\ LET cps == {children[i] : i \in 1..Len(children)}
           g == build_edges(1, children, child_deps,
                            [cp \in cps |-> 0], [cp \in cps |-> <<>>])
       IN /\ in_deg' = g.in_deg
          /\ adj' = g.adj
          /\ queue' = zero_queue(children, g.in_deg)
    /\ result' = <<>>
    /\ pc' = "loop"
    /\ UNCHANGED <<children, child_deps, viewVars, probe, routeVars, parseVars, pollVars, editVars>>

\* variant of SortLoop: the node freed last is taken from the queue
SortLoopLast ==
    /\ pc = "loop"
    /\ queue # <<>>
    /\ LET node == queue[Len(queue)]
           r == release(adj[node], in_deg, SubSeq(queue, 1, Len(queue) - 1))
       IN /\ result' = Append(result, node)
          /\ in_deg' = r.in_deg
          /\ queue' = r.queue
    /\ UNCHANGED <<pc, children, child_deps, adj, viewVars, probe, routeVars, parseVars, pollVars, editVars>>

\* one iteration of "while queue"
SortLoop ==
    /\ pc = "loop"
    /\ queue # <<>>
    /\ LET node == Head(queue)
           r == release(adj[node], in_deg, Tail(queue))
       IN /\ result' = Append(result, node)
          /\ in_deg' = r.in_deg
          /\ queue' = r.queue
    /\ UNCHANGED <<pc, children, child_deps, adj, viewVars, probe, routeVars, parseVars, pollVars, editVars>>

\* the queue is empty: the nodes left over are appended and the list returned
SortReturn ==
    /\ pc = "loop"
    /\ queue = <<>>
    /\ result' = append_rest(1, children, result)
    /\ pc' = "done"
    /\ UNCHANGED <<children, child_deps, in_deg, adj, queue, viewVars, probe, routeVars, parseVars, pollVars, editVars>>

SortNext ==
    \/ \E name \in SiblingNames, deps \in SeqsUpTo(SiblingNames, MaxDeps) :
           DeclareMod(name, deps)
    \/ SortCall
    \/ SortLoop
    \/ SortReturn

SortSpec == SortInit /\ [][SortNext]_vars

\* sort_children runs to completion once called
SortFairSpec == SortSpec /\ WF_vars(SortLoop) /\ WF_vars(SortReturn)

----------------------------------------------------------------------------
(* Properties of sort_children *)

\* the declared name of a sibling path of the parsed file
NameOf(cp) == CHOOSE n \in SiblingNames : ChildPath(ParentPath, n) = cp

Siblings == {children[i] : i \in 1..Len(children)}

\* the list holds no path twice
Distinct(list) == \A i, j \in 1..Len(list) : list[i] = list[j] => i = j

\* number of occurrences of x in list
Count(x, list) == Cardinality({i \in 1..Len(list) : list[i] = x})

\* sibling x declares a dependency on sibling y
DependsOn(x, y) ==
    LET ds == DepsGet(child_deps, NameOf(x))
    IN \E j \in 1..Len(ds) : ds[j] = NameOf(y)

Dependencies(x) == {y \in Siblings : DependsOn(x, y)}

RECURSIVE DepClosure(_)
DepClosure(S) ==
    LET T == S \cup UNION {Dependencies(y) : y \in S}
    IN IF T = S THEN S ELSE DepClosure(T)

\* the siblings reached from x by one or more dependency declarations
ReachPlus(x) == DepClosure(Dependencies(x))

OnCycle(x) == x \in ReachPlus(x)

HasCycle == \E x \in Siblings : OnCycle(x)

\* on a cycle, or a dependency (direct or not) of a node on a cycle
Stuck == {y \in Siblings : \E x \in Siblings : OnCycle(x) /\ (y = x \/ y \in ReachPlus(x))}

SortDone == pc = "done"

\* C1: for distinct siblings whose dependency declarations contain a cycle
\* (a module naming itself included), sort_children terminates, and its
\* output holds every sibling exactly once.
C1_CyclicSortTerminatesComplete ==
    /\ [](SortDone /\ Distinct(children) /\ HasCycle =>
            /\ Len(result) = Len(children)
            /\ \A cp \in Siblings : Count(cp, result) = 1)
    /\ ((pc = "loop" /\ Distinct(children) /\ HasCycle) ~> SortDone)

C1_Witness ==
    /\ SortDone /\ Distinct(children) /\ Len(children) = 3
    /\ \E x, y \in Siblings : x # y /\ OnCycle(x) /\ OnCycle(y)
    /\ \A cp \in Siblings : Count(cp, result) = 1

\* C2: for distinct siblings without a dependency cycle, every sibling that
\* is depended upon comes after all the siblings that depend on it; for
\* [a, b] with b depending on a the output is [b, a].
C2_DependentsFirst ==
    SortDone /\ Distinct(children) /\ ~HasCycle =>
        /\ \A y \in Siblings : \A x \in Siblings :
              DependsOn(x, y) =>
                  \A i, j \in 1..Len(result) :
                      result[i] = x /\ result[j] = y => i < j
        /\ \A cp \in Siblings : InList(cp, result)
        /\ (/\ children = <<ChildPath(ParentPath, Str1("a")), ChildPath(ParentPath, Str1("b"))>>
            /\ DepsGet(child_deps, Str1("b")) = <<Str1("a")>>)
           => result = <<ChildPath(ParentPath, Str1("b")), ChildPath(ParentPath, Str1("a"))>>

C2_Witness ==
    /\ SortDone
    /\ children = <<ChildPath(ParentPath, Str1("a")), ChildPath(ParentPath, Str1("b"))>>
    /\ DepsGet(child_deps, Str1("b")) = <<Str1("a")>>
    /\ DepsGet(child_deps, Str1("a")) = <<>>
    /\ result = <<ChildPath(ParentPath, Str1("b")), ChildPath(ParentPath, Str1("a"))>>

\* C3 as stated: without a cycle, no node appears before a sibling it
\* depends on (dependencies come first).
C3_Original_DependenciesFirst ==
    SortDone /\ Distinct(children) /\ ~HasCycle =>
        \A i, j \in 1..Len(result) :
            i < j => ~DependsOn(result[i], result[j])

\* C3 (amended): without a cycle, the output is a topological order of the
\* dependent-to-dependency graph: no node appears after a sibling it
\* depends on, and read from right to left dependencies come first.
C3_NoNodeAfterItsDependency ==
    SortDone /\ Distinct(children) /\ ~HasCycle =>
        /\ Len(result) = Len(children)
        /\ \A i, j \in 1..Len(result) :
              i < j => ~DependsOn(result[j], result[i])

C3_Witness ==
    /\ SortDone /\ Distinct(children) /\ ~HasCycle
    /\ Len(children) = 3
    /\ \E x, y, z \in Siblings : DependsOn(x, y) /\ DependsOn(y, z) /\ x # z
    /\ \A i, j \in 1..Len(result) : i < j => ~DependsOn(result[j], result[i])

\* C4: every node that never reaches in-degree zero comes after every node
\* the traversal emitted, and the nodes left over keep their declaration
\* order among themselves.
C4_LeftoversLastInDeclarationOrder ==
    SortDone /\ Distinct(children) =>
        /\ \A cp \in Siblings : (in_deg[cp] # 0) <=> (cp \in Stuck)
        /\ \A i, j \in 1..Len(result) :
              result[i] \notin Stuck /\ result[j] \in Stuck => i < j
        /\ \A i, j \in 1..Len(result) :
              (i < j /\ result[i] \in Stuck /\ result[j] \in Stuck) =>
                  \E k, l \in 1..Len(children) :
                      k < l /\ children[k] = result[i] /\ children[l] = result[j]

C4_Witness ==
    /\ SortDone /\ Distinct(children) /\ Len(children) = 3
    /\ Cardinality(Stuck) = 2
    /\ children[1] \in Stuck /\ children[2] \notin Stuck
    /\ result[1] = children[2]
    /\ \E x \in Stuck : ~OnCycle(x)

----------------------------------------------------------------------------
(* The module tree, read from the children lists of the snapshot *)

TreeParent(g, p) == CHOOSE q \in ModulePaths(g) : InList(p, g.modules[q].children)

\* the modules from the root down to p, p included
RECURSIVE RootWalk(_, _)
RootWalk(g, p) ==
    IF p = g.root THEN <<p>> ELSE Append(RootWalk(g, TreeParent(g, p)), p)

StrictAncestors(g, p) ==
    LET w == RootWalk(g, p) IN {w[i] : i \in 1..(Len(w) - 1)}

\* m and its descendants
TreeSubtree(g, m) == {p \in ModulePaths(g) : p = m \/ m \in StrictAncestors(g, p)}

\* the module that owns a function identity
OwnerOf(fnId) ==
    CHOOSE p \in UPaths :
        \E n \in ProbeFnNames \cup {Str1("m"), Str1("k"), Str1("g")} : FnId(p, n) = fnId

HasOwner(fnId) ==
    \E p \in UPaths :
        \E n \in ProbeFnNames \cup {Str1("m"), Str1("k"), Str1("g")} : FnId(p, n) = fnId

----------------------------------------------------------------------------
(* Properties of the visibility functions *)

\* C5: resolveVisible returns the first module on the walk from the root to
\* the owning module (included) that is not in the Expanded-Set, and the
\* function identity itself exactly when all of them are in it.
C5_ResolveFirstCollapsedOnWalk ==
    probe.kind = "fn" =>
        LET walk == RootWalk(graph, probe.mod)
            closed == {i \in 1..Len(walk) : walk[i] \notin expanded}
        IN IF closed = {}
           THEN probe.resolved = probe.id
           ELSE /\ probe.resolved = walk[CHOOSE i \in closed : \A j \in closed : i <= j]
                /\ probe.resolved # probe.id

C5_Witness ==
    /\ probe.kind = "fn"
    /\ probe.mod = PAXY
    /\ PR \in expanded /\ PA \notin expanded /\ PAX \in expanded /\ PAXY \notin expanded
    /\ probe.resolved = PA

\* C6: a non-root module box is visible iff all its strict ancestors are in
\* the Expanded-Set, the root box is always visible, and a function box is
\* visible iff its module is visible and in the Expanded-Set.
C6_VisibleIffAncestorsExpanded ==
    /\ probe.kind = "mod" =>
          /\ probe.visible <=> (StrictAncestors(graph, probe.mod) \subseteq expanded)
          /\ probe.mod = graph.root => probe.visible
    /\ probe.kind = "fn" =>
          probe.visible <=>
              /\ StrictAncestors(graph, probe.mod) \subseteq expanded
              /\ probe.mod \in expanded

C6_Witness ==
    /\ probe.kind = "mod"
    /\ probe.mod = PAXY
    /\ PR \in expanded /\ PA \notin expanded /\ PAX \in expanded
    /\ ~probe.visible

----------------------------------------------------------------------------
(* Properties of the expand/collapse state machine *)

\* the edge b::g -> a::f of the scenario root{a, b}
ScenarioEdge == <<FnId(PB, Str1("g")), FnId(PA, Str1("f"))>>

\* C7: an edge whose two endpoints lie inside the same collapsed module
\* resolves to equal source and target and no arrow is drawn for it; the
\* edge b::g -> a::f is suppressed when the root is collapsed and drawn from
\* box r/b to box r/a when the root is expanded and a, b are collapsed.
C7_SameCollapsedModuleSuppressed ==
    graph # NullGraph =>
        /\ \A i \in 1..Len(graph.function_edges) :
              LET src == graph.function_edges[i][1]
                  tgt == graph.function_edges[i][2]
                  rSrc == resolveVisible(expanded, src)
                  rTgt == resolveVisible(expanded, tgt)
              IN (\E m \in ModulePaths(graph) \ expanded :
                      /\ HasOwner(src) /\ OwnerOf(src) \in TreeSubtree(graph, m)
                      /\ HasOwner(tgt) /\ OwnerOf(tgt) \in TreeSubtree(graph, m))
                 => /\ rSrc = rTgt
                    /\ [src |-> rSrc, tgt |-> rTgt] \notin arrows
        /\ ({PA, PB} \subseteq ModulePaths(graph) /\ PR \notin expanded) =>
              /\ InList(ScenarioEdge, graph.function_edges)
              /\ resolveVisible(expanded, ScenarioEdge[1]) = PR
              /\ resolveVisible(expanded, ScenarioEdge[2]) = PR
              /\ arrows = {}
        /\ ({PA, PB} \subseteq ModulePaths(graph) /\ PR \in expanded
                /\ PA \notin expanded /\ PB \notin expanded) =>
              [src |-> PB, tgt |-> PA] \in arrows

C7_Witness ==
    /\ graph # NullGraph
    /\ event.type = "click" /\ event.path = PA /\ PAX \in event.before
    /\ PR \in expanded /\ PA \notin expanded /\ PB \notin expanded
    /\ InList(<<FnId(PAX, Str1("h")), FnId(PA, Str1("f"))>>, graph.function_edges)
    /\ [src |-> PB, tgt |-> PA] \in arrows
    /\ [src |-> PA, tgt |-> PA] \notin arrows

\* C8: a click on a module m of the Expanded-Set removes m and all its
\* descendants, and right after a plain click re-expands m no strict
\* descendant of m is in the Expanded-Set.
C8_CollapseForgetsNestedState ==
    (graph # NullGraph /\ event.type = "click") =>
        LET m == event.path
        IN /\ m \in event.before => expanded \cap TreeSubtree(graph, m) = {}
           /\ (m \notin event.before /\ ~event.ctrl) =>
                 /\ m \in expanded
                 /\ expanded \cap (TreeSubtree(graph, m) \ {m}) = {}

C8_Witness ==
    /\ prev.type = "click" /\ prev.path = PA
    /\ {PA, PAX, PAXY} \subseteq prev.before
    /\ event.type = "click" /\ event.path = PA /\ ~event.ctrl
    /\ PA \notin event.before
    /\ PA \in expanded /\ PAX \notin expanded /\ PAXY \notin expanded

\* C9: a plain expand of a collapsed module m adds exactly m, a collapse of
\* m removes only m and its descendants; every other path keeps its
\* membership, r/ab included when r/a is clicked.
C9_ToggleFrame ==
    (graph # NullGraph /\ event.type = "click") =>
        LET m == event.path
        IN /\ (m \notin event.before /\ ~event.ctrl) =>
                 expanded = event.before \cup {m}
           /\ m \in event.before =>
                 /\ \A p \in ModulePaths(graph) \ TreeSubtree(graph, m) :
                       p \in expanded <=> p \in event.before
                 /\ expanded \subseteq event.before
           /\ (m = PA /\ PAB \in event.before) => PAB \in expanded

C9_Witness ==
    /\ event.type = "click" /\ event.path = PA
    /\ {PA, PAX, PAB} \subseteq event.before
    /\ PAB \in expanded /\ PA \notin expanded /\ PAX \notin expanded

\* C10 as stated: after Ctrl/Meta+click on any visible module m, m and all
\* its descendants are in the Expanded-Set.
C10_Original_CtrlClickAnyModule ==
    (graph # NullGraph /\ event.type = "click" /\ event.ctrl) =>
        TreeSubtree(graph, event.path) \subseteq expanded

\* C10 (amended): after Ctrl/Meta+click on a visible module m that is not in
\* the Expanded-Set, m and all its descendants are in the Expanded-Set.
C10_CtrlClickCollapsedModule ==
    (graph # NullGraph /\ event.type = "click" /\ event.ctrl
        /\ event.path \notin event.before) =>
        TreeSubtree(graph, event.path) \subseteq expanded

C10_Witness ==
    /\ event.type = "click" /\ event.ctrl /\ event.path = PA
    /\ PA \notin event.before
    /\ PAXY \in ModulePaths(graph)
    /\ {PA, PAX, PAXY} \subseteq expanded
    /\ PAB \in ModulePaths(graph) /\ PAB \notin expanded

----------------------------------------------------------------------------
(* Claims about the buttons and the geometry *)

\* the endpoints of the function edges of g that have a function box
EdgeEndpoints(g) ==
    UNION {{g.function_edges[i][1], g.function_edges[i][2]} : i \in 1..Len(g.function_edges)}

ToggleEvents == {"click", "expandAll", "collapseAll"}

\* C12: a click on a module box, "Expand All" and "Collapse All" leave
\* modBoxes and fnBoxes as they were, and the geometry is at all times the
\* layout of the loaded snapshot alone.
C12_TogglesKeepGeometry ==
    /\ [][event'.type \in ToggleEvents => modBoxes' = modBoxes /\ fnBoxes' = fnBoxes]_vars
    /\ [](graph # NullGraph =>
            /\ modBoxes = Layout(graph, BrowserMeasure).mb
            /\ fnBoxes = Layout(graph, BrowserMeasure).fb)

\* a module was collapsed and reopened
C12_Witness ==
    /\ graph # NullGraph
    /\ event.type = "click" /\ prev.type = "click"
    /\ event.path = PA /\ prev.path = PA
    /\ PA \in prev.before /\ PAX \in prev.before
    /\ PA \notin event.before
    /\ PA \in expanded
    /\ PAX \in DOMAIN modBoxes
    /\ modBoxes[PAX].w > 0

----------------------------------------------------------------------------
(* The layout under any font metrics *)

\* a snapshot arrives in a browser of any font metrics
LayoutNext == \E g \in Graphs, mw \in Measures : LoadWith(g, mw)

LayoutSpec == Init /\ [][LayoutNext]_vars

\* box b lies within box o, borders included
Inside(b, o) ==
    /\ o.x <= b.x /\ b.x + b.w <= o.x + o.w
    /\ o.y <= b.y /\ b.y + b.h <= o.y + o.h

\* C13: after computeSize and computePositions every module box fully
\* contains the boxes of its functions and the boxes of its child modules,
\* for every tree and every non-negative text measurement.
C13_BoxesContainContents ==
    graph # NullGraph =>
        \A p \in ModulePaths(graph) :
            /\ \A i \in 1..Len(graph.modules[p].functions) :
                  Inside(fnBoxes[FnId(p, graph.modules[p].functions[i])], modBoxes[p])
            /\ \A i \in 1..Len(graph.modules[p].children) :
                  Inside(modBoxes[graph.modules[p].children[i]], modBoxes[p])

\* the full tree laid out with function names wider than every label
C13_Witness ==
    /\ graph # NullGraph
    /\ ModulePaths(graph) = UPaths
    /\ fnBoxes[FnId(PB, Str1("g"))].w = 60 + 2 * FN_PAD_X
    /\ modBoxes[PAX].w >= modBoxes[PAXY].w + 2 * PAD
    /\ modBoxes[PA].h > modBoxes[PAX].h
    /\ modBoxes[PR].w >= modBoxes[PA].w + modBoxes[PB].w + modBoxes[PAB].w + 2 * MOD_GAP + 2 * PAD

----------------------------------------------------------------------------
(* Paths of the file system, as pathlib and os.path compute them *)

DotSpeck == <<".", "s", "p", "e", "c", "k">>
Dot == Str1(".")
DotDot == <<".", ".">>

\* Path(s).parent, as a string
PathParent(s) ==
    LET segs == Segments(s)
    IN IF Len(segs) = 1 THEN Dot
       ELSE IF Len(segs) = 2 /\ segs[1] = <<>> THEN Str1("/")
       ELSE JoinSlash(SubSeq(segs, 1, Len(segs) - 1))

\* Path(s).name
PathName(s) == IF s = Dot \/ s = Str1("/") THEN <<>> ELSE LastSegment(s)

\* Path(dir) / name, as a string
PathJoin(dir, name) ==
    IF dir = Dot THEN name
    ELSE IF dir = Str1("/") THEN dir \o name
    ELSE SlashJoin(dir, name)

\* os.path.join(a, b)
os_path_join(a, b) ==
    IF StartsWith(b, Str1("/")) THEN b
    ELSE IF a = <<>> \/ a[Len(a)] = "/" THEN a \o b
    ELSE a \o <<"/">> \o b

\* the loop of os.path.normpath over the components
RECURSIVE norm_comps(_, _, _)
norm_comps(comps, initial_slashes, new_comps) ==
    IF comps = <<>> THEN new_comps
    ELSE LET comp == Head(comps)
         IN IF comp = <<>> \/ comp = Dot
            THEN norm_comps(Tail(comps), initial_slashes, new_comps)
            ELSE IF \/ comp # DotDot
                    \/ (initial_slashes = 0 /\ new_comps = <<>>)
                    \/ (new_comps # <<>> /\ new_comps[Len(new_comps)] = DotDot)
            THEN norm_comps(Tail(comps), initial_slashes, Append(new_comps, comp))
            ELSE IF new_comps # <<>>
            THEN norm_comps(Tail(comps), initial_slashes, SubSeq(new_comps, 1, Len(new_comps) - 1))
            ELSE norm_comps(Tail(comps), initial_slashes, new_comps)

\* os.path.normpath(path)
os_path_normpath(path) ==
    LET initial_slashes ==
            IF ~StartsWith(path, Str1("/")) THEN 0
            ELSE IF StartsWith(path, <<"/", "/">>) /\ ~StartsWith(path, <<"/", "/", "/">>) THEN 2
            ELSE 1
        joined == JoinSlash(norm_comps(Segments(path), initial_slashes, <<>>))
        out == [i \in 1..initial_slashes |-> "/"] \o joined
    IN IF path = <<>> \/ out = <<>> THEN Dot ELSE out

\* s.rsplit("::", 1)[0]
RSplitColons(s) ==
    LET idx == {i \in 1..(Len(s) - 1) : s[i] = ":" /\ s[i + 1] = ":"}
    IN IF idx = {} THEN s ELSE SubSeq(s, 1, SetMax(idx) - 1)

----------------------------------------------------------------------------
(* The project on disk: the directory r of the working directory /w *)

\* the "mod name { deps }" declarations of the file of module q, in file order
FileMods(q) ==
    IF q = PR THEN << [name |-> Str1("a"), deps |-> <<>>],
                      [name |-> Str1("b"), deps |-> <<Str1("a")>>],
                      [name |-> <<"a", "b">>, deps |-> <<Str1("a")>>] >>
    ELSE IF q = PA THEN << [name |-> Str1("x"), deps |-> <<>>] >>
    ELSE IF q = PAX THEN << [name |-> Str1("y"), deps |-> <<>>] >>
    ELSE <<>>

\* the "def name(...) -> T { body }" declarations of the file of module q
\* with the path::name references of each body, in file order
FileDefs(q) ==
    IF q = PR THEN << [name |-> Str1("m"), refs |-> << <<Str1("b"), Str1("g")>> >>] >>
    ELSE IF q = PA THEN << [name |-> Str1("f"), refs |-> <<>>] >>
    ELSE IF q = PAX THEN << [name |-> Str1("h"),
                             refs |-> << <<DotDot, Str1("f")>>, <<Dot, Str1("i")>> >>],
                            [name |-> Str1("i"), refs |-> <<>>] >>
    ELSE IF q = PAB THEN << [name |-> Str1("k"),
                             refs |-> << <<<<".", ".", "/", "a", "/", "x">>, Str1("h")>> >>] >>
    ELSE IF q = PB THEN << [name |-> Str1("g"),
                            refs |-> << <<<<".", ".", "/", "a">>, Str1("f")>>,
                                        <<<<".", ".", "/", "a">>, Str1("f")>> >>] >>
    ELSE <<>>

\* the ways the root file can be named on the command line: relative to the
\* working directory /w, absolute, and from within the directory r
RootRel == <<"r", "/">> \o Str1("r") \o DotSpeck
RootAbs == <<"/", "w", "/", "r", "/">> \o Str1("r") \o DotSpeck
RootCwd == Str1("r") \o DotSpeck
RootArgs == {RootRel, RootAbs, RootCwd}

\* file_dir / name / f"{name}.speck"
ChildFile(file_dir, name) == PathJoin(PathJoin(file_dir, name), name \o DotSpeck)

\* the file of module q of the project when the root file is root_file
RECURSIVE DiskFile(_, _)
DiskFile(root_file, q) ==
    IF q = PR THEN root_file
    ELSE ChildFile(PathParent(DiskFile(root_file, UParent(q))), LastSegment(q))

\* the module whose file speck_file is
ModOfFile(root_file, speck_file) ==
    CHOOSE q \in UPaths : DiskFile(root_file, q) = speck_file

\* the root file exists (main checks it), any of the other files may be
\* missing; the texts hold the mod declarations of the modules in declared,
\* and the def declarations unless the file is in nodefs
FsInputs ==
    {[root_file |-> rf, present |-> {DiskFile(rf, q) : q \in S \cup {PR}},
      declared |-> UPaths \ {PR}, nodefs |-> {}] :
        rf \in RootArgs, S \in SUBSET (UPaths \ {PR})}

----------------------------------------------------------------------------
(* parse_speck_tree *)

\* the while loop of sort_children
RECURSIVE sort_loop(_, _, _, _)
sort_loop(q, deg, ad, res) ==
    IF q = <<>> THEN res
    ELSE LET r == release(ad[Head(q)], deg, Tail(q))
         IN sort_loop(r.queue, r.in_deg, ad, Append(res, Head(q)))

sort_children(chs, deps) ==
    LET cps == {chs[i] : i \in 1..Len(chs)}
        g == build_edges(1, chs, deps, [cp \in cps |-> 0], [cp \in cps |-> <<>>])
    IN append_rest(1, chs, sort_loop(zero_queue(chs, g.in_deg), g.in_deg, g.adj, <<>>))

\* the function edges the body of one def contributes
body_edges(file_dir, mod_path, def) ==
    [j \in 1..Len(def.refs) |->
        <<FnId(mod_path, def.name),
          FnId(os_path_normpath(os_path_join(file_dir, def.refs[j][1])), def.refs[j][2])>>]

RECURSIVE defs_edges(_, _, _)
defs_edges(file_dir, mod_path, defs) ==
    IF defs = <<>> THEN <<>>
    ELSE body_edges(file_dir, mod_path, Head(defs)) \o defs_edges(file_dir, mod_path, Tail(defs))

\* parse_module(speck_file, mod_path, depth): modules and function_edges
\* after the call, acc before it
RECURSIVE parse_module(_, _, _, _, _)
parse_module(fs, speck_file, mod_path, depth, acc) ==
    IF speck_file \notin fs.present THEN acc
    ELSE LET q == ModOfFile(fs.root_file, speck_file)
             file_dir == PathParent(speck_file)
             mods == SelectSeq(FileMods(q), LAMBDA m : ChildPath(q, m.name) \in fs.declared)
             defs == IF speck_file \in fs.nodefs THEN <<>> ELSE FileDefs(q)
             RECURSIVE ModLoop(_, _)
             ModLoop(i, a) ==
                 IF i > Len(mods) THEN a
                 ELSE ModLoop(i + 1, parse_module(fs, ChildFile(file_dir, mods[i].name),
                                                  ChildPath(mod_path, mods[i].name), depth + 1, a))
             below == ModLoop(1, acc)
             chs == [i \in 1..Len(mods) |-> ChildPath(mod_path, mods[i].name)]
             cdeps == [n \in {mods[i].name : i \in 1..Len(mods)} |->
                          mods[SetMax({i \in 1..Len(mods) : mods[i].name = n})].deps]
         IN [modules |-> (mod_path :> [name |-> LastSegment(mod_path), path |-> mod_path,
                                       children |-> sort_children(chs, cdeps),
                                       functions |-> [i \in 1..Len(defs) |-> defs[i].name],
                                       depth |-> depth])
                            @@ below.modules,
             function_edges |-> below.function_edges \o defs_edges(file_dir, mod_path, defs)]

\* variant of mod_edge_set: the test src_mod != tgt_mod is dropped
mod_edge_set_all(function_edges) ==
    {<<RSplitColons(function_edges[i][1]), RSplitColons(function_edges[i][2])>> :
        i \in 1..Len(function_edges)}

\* the set parse_speck_tree collects the module edges in
mod_edge_set(function_edges) ==
    {<<RSplitColons(function_edges[i][1]), RSplitColons(function_edges[i][2])>> :
        i \in {j \in 1..Len(function_edges) :
                  RSplitColons(function_edges[j][1]) # RSplitColons(function_edges[j][2])}}

parse_speck_tree(fs) ==
    LET root_name == PathName(PathParent(fs.root_file))
        out == parse_module(fs, fs.root_file, root_name, 0,
                            [modules |-> EmptyMap, function_edges |-> <<>>])
    IN [modules |-> out.modules,
        function_edges |-> out.function_edges,
        module_edges |-> mod_edge_set(out.function_edges),
        root |-> root_name]

\* buildTree(g): the paths build() makes a node for, and whether it reads
\* the name of a module that g.modules does not hold
buildTree(g) ==
    LET RECURSIVE build(_)
        build(modPath) ==
            IF modPath \notin DOMAIN g.modules THEN [nodes |-> {}, error |-> TRUE]
            ELSE LET kids == [i \in 1..Len(g.modules[modPath].children) |->
                                 build(g.modules[modPath].children[i])]
                 IN [nodes |-> {modPath} \cup UNION {kids[i].nodes : i \in 1..Len(kids)},
                     error |-> \E i \in 1..Len(kids) : kids[i].error]
    IN build(g.root)

----------------------------------------------------------------------------
(* The server parses the files on disk and the viewer builds its tree *)

ParseInit ==
    /\ files \in FsInputs
    /\ parsed = [kind |-> "none"]
    /\ ViewIdle
    /\ SortIdle
    /\ RouteIdle
    /\ PollIdle
    /\ EditIdle

\* GET /graph
GetGraph ==
    /\ parsed.kind = "none"
    /\ parsed' = [kind |-> "snapshot", graph |-> parse_speck_tree(files)]
    /\ UNCHANGED <<files, sortVars, viewVars, probe, routeVars, pollVars, editVars>>

\* the viewer receives the snapshot: treeRoot = buildTree(graph)
BuildTree ==
    /\ parsed.kind = "snapshot"
    /\ parsed' = [kind |-> "tree", graph |-> parsed.graph, tree |-> buildTree(parsed.graph)]
    /\ UNCHANGED <<files, sortVars, viewVars, probe, routeVars, pollVars, editVars>>

ParseNext == GetGraph \/ BuildTree

ParseSpec == ParseInit /\ [][ParseNext]_vars

----------------------------------------------------------------------------
(* Claims about the snapshot *)

\* the modules of the project whose files parse_module reads: the file of
\* the module and of each of its ancestors exists
RECURSIVE FileChainPresent(_, _)
FileChainPresent(fs, q) ==
    /\ DiskFile(fs.root_file, q) \in fs.present
    /\ q # PR => FileChainPresent(fs, UParent(q))

ParsedFiles(fs) == {q \in UPaths : FileChainPresent(fs, q)}

\* number of path::name references in the bodies of the file of q
RefCount(q) == SumOver([i \in 1..Len(FileDefs(q)) |-> Len(FileDefs(q)[i].refs)])

\* number of references in the files of the modules S
RECURSIVE RefTotal(_)
RefTotal(S) ==
    IF S = {} THEN 0
    ELSE LET x == CHOOSE y \in S : TRUE IN RefCount(x) + RefTotal(S \ {x})

\* the file of the module that the snapshot names by the path c
FileOfPath(fs, c) ==
    DiskFile(fs.root_file, CHOOSE q \in UPaths : Tail(Segments(q)) = Tail(Segments(c)))

ChildrenListed(g) ==
    UNION {{g.modules[p].children[i] : i \in 1..Len(g.modules[p].children)} : p \in DOMAIN g.modules}

\* C14: in the snapshot every path listed in a module's children is a key of
\* the modules map, a child whose file is missing being an entry without
\* children and functions, and buildTree on the snapshot does not fail.
C14_MissingChildIsEmptyModule ==
    /\ parsed.kind # "none" =>
          \A c \in ChildrenListed(parsed.graph) :
              /\ c \in DOMAIN parsed.graph.modules
              /\ FileOfPath(files, c) \notin files.present =>
                    /\ parsed.graph.modules[c].children = <<>>
                    /\ parsed.graph.modules[c].functions = <<>>
    /\ parsed.kind = "tree" => ~parsed.tree.error

\* the function id has a prefix "path::" for a path of the modules map
HasModulePrefix(g, id) ==
    \E p \in DOMAIN g.modules : StartsWith(id, p \o <<":", ":">>)

\* C15: in every snapshot every function id that is the source or the target
\* of a function edge has a module-path prefix that is a key of the modules
\* map, whatever path the root file was given as.
C15_EdgeEndpointsOwnedByModules ==
    parsed.kind # "none" =>
        \A i \in 1..Len(parsed.graph.function_edges) :
            /\ HasModulePrefix(parsed.graph, parsed.graph.function_edges[i][1])
            /\ HasModulePrefix(parsed.graph, parsed.graph.function_edges[i][2])

\* the owning module of a function id: the text before its "::"
OwnerPair(e) == <<BeforeColons(e[1]), BeforeColons(e[2])>>

----------------------------------------------------------------------------
(* Claims about dangling edges *)

\* an endpoint of the edge names a module or a function that is not in the tree
Dangling(g, e) == e[1] \notin FnBoxIds(g) \/ e[2] \notin FnBoxIds(g)

\* the arrows of the edges of g without the dangling ones
ArrowsOfSoundEdges(g, E) ==
    LET sound == {i \in 1..Len(g.function_edges) : ~Dangling(g, g.function_edges[i])}
        rs == {[src |-> resolveVisible(E, g.function_edges[i][1]),
                tgt |-> resolveVisible(E, g.function_edges[i][2])] : i \in sound}
    IN {e \in rs : e.src # e.tgt}

\* C17: for every reachable Expanded-Set the arrows drawn are those of the
\* edges whose two endpoints are in the tree: an edge with an endpoint that
\* names a module or a function not in the tree gives no arrow, and the
\* other edges are still drawn.
C17_DanglingEdgesGiveNoArrow ==
    graph # NullGraph => arrows = ArrowsOfSoundEdges(graph, expanded)

----------------------------------------------------------------------------
(* Arrow routing.  The router divides by two repeatedly, so its lengths are *)
(* counted in eighths of a pixel: every value it computes is a whole number *)
(* of them.                                                                 *)

\* eighths of a pixel in n pixels
Px(n) == 8 * n

Abs(n) == IF n < 0 THEN 0 - n ELSE n

Half(n) == n \div 2

\* the box b of the layout in the unit of the router, with its id
ObstacleBox(id, b) == [id |-> id, x |-> Px(b.x), y |-> Px(b.y), w |-> Px(b.w), h |-> Px(b.h)]

\* the box edge.src.indexOf('::') !== -1 ? fnBoxes[id] : modBoxes[id]
BoxOf(mb, fb, id) ==
    IF IndexOfColons(id) # 0 THEN ObstacleBox(id, fb[id]) ELSE ObstacleBox(id, mb[id])

\* getVisibleObstacles() with the boxes
VisibleObstacleBoxes(g, E, mb, fb) == {BoxOf(mb, fb, id) : id \in getVisibleObstacles(g, E)}

\* the commands of an SVG path
MoveTo(x, y) == [op |-> "M", cx |-> x, cy |-> y, x |-> x, y |-> y]
LineTo(x, y) == [op |-> "L", cx |-> x, cy |-> y, x |-> x, y |-> y]
QuadTo(cx, cy, x, y) == [op |-> "Q", cx |-> cx, cy |-> cy, x |-> x, y |-> y]

\* the corner radius R of orthogonalPath and of reroutedPath
CornerR == 6
ROUTE_MARGIN == 15
OBS_GAP == 20
MIN_RUNIN == 15
\* the margin of findBlockingBoxes
BlockMargin == 2

\* variant of orthogonalPath: one sharp bend at the target column or row
orthogonalPathOneBend(sx, sy, tx, ty) ==
    LET dx == tx - sx
        dy == ty - sy
    IN IF Abs(dy) < Px(1) THEN <<MoveTo(sx, sy), LineTo(tx, ty)>>
       ELSE IF Abs(dx) < Px(1) THEN <<MoveTo(sx, sy), LineTo(tx, ty)>>
       ELSE IF Abs(dx) >= Abs(dy)
       THEN <<MoveTo(sx, sy), LineTo(tx, sy), QuadTo(tx, sy, tx, sy), LineTo(tx, ty)>>
       ELSE <<MoveTo(sx, sy), LineTo(sx, ty), QuadTo(sx, ty, sx, ty), LineTo(tx, ty)>>

orthogonalPath(sx, sy, tx, ty) ==
    LET dx == tx - sx
        dy == ty - sy
        dv == IF dy > 0 THEN 1 ELSE -1
        dh == IF dx > 0 THEN 1 ELSE -1
        midX == Half(sx + tx)
        midY == Half(sy + ty)
        rH == Max2(Min2(Min2(Px(CornerR), Abs(midX - sx)),
                        Min2(Abs(tx - midX), Half(Abs(dy)))), 0)
        rV == Max2(Min2(Min2(Px(CornerR), Abs(midY - sy)),
                        Min2(Abs(ty - midY), Half(Abs(dx)))), 0)
    IN IF Abs(dy) < Px(1) THEN <<MoveTo(sx, sy), LineTo(tx, ty)>>
       ELSE IF Abs(dx) < Px(1) THEN <<MoveTo(sx, sy), LineTo(tx, ty)>>
       ELSE IF Abs(dx) >= Abs(dy)
       THEN <<MoveTo(sx, sy),
              LineTo(midX - dh * rH, sy),
              QuadTo(midX, sy, midX, sy + dv * rH),
              LineTo(midX, ty - dv * rH),
              QuadTo(midX, ty, midX + dh * rH, ty),
              LineTo(tx, ty)>>
       ELSE <<MoveTo(sx, sy),
              LineTo(sx, midY - dv * rV),
              QuadTo(sx, midY, sx + dh * rV, midY),
              LineTo(tx - dh * rV, midY),
              QuadTo(tx, midY, tx, midY + dv * rV),
              LineTo(tx, ty)>>

connectionPoints(s, t) ==
    LET hGap == Max2(Max2(t.x - (s.x + s.w), s.x - (t.x + t.w)), 0)
        vGap == Max2(Max2(t.y - (s.y + s.h), s.y - (t.y + t.h)), 0)
        sCx == s.x + Half(s.w)
        sCy == s.y + Half(s.h)
        tCx == t.x + Half(t.w)
        tCy == t.y + Half(t.h)
        overlapL == Max2(s.x, t.x)
        overlapR == Min2(s.x + s.w, t.x + t.w)
        sharedX == IF overlapL < overlapR THEN Half(overlapL + overlapR) ELSE Half(sCx + tCx)
    IN IF hGap >= vGap
       THEN IF tCx >= sCx
            THEN [sx |-> s.x + s.w, sy |-> sCy, tx |-> t.x - Px(ARROW_W), ty |-> tCy]
            ELSE [sx |-> s.x, sy |-> sCy, tx |-> t.x + t.w + Px(ARROW_W), ty |-> tCy]
       ELSE IF tCy >= sCy
            THEN [sx |-> sharedX, sy |-> s.y + s.h, tx |-> sharedX, ty |-> t.y - Px(ARROW_W)]
            ELSE [sx |-> sharedX, sy |-> s.y, tx |-> sharedX, ty |-> t.y + t.h + Px(ARROW_W)]

isAncestorOf(ancestorId, descendantId) ==
    \/ StartsWith(descendantId, ancestorId \o <<"/">>)
    \/ StartsWith(descendantId, ancestorId \o <<":", ":">>)

\* variant of findBlockingBoxes: the ancestors and descendants of the
\* endpoints are obstacles like any other box
findBlockingBoxesKin(sx, sy, tx, ty, sourceId, targetId, obstacles) ==
    LET xMin == Min2(sx, tx) + Px(BlockMargin)
        xMax == Max2(sx, tx) - Px(BlockMargin)
        yMin == Min2(sy, ty) - Px(BlockMargin)
        yMax == Max2(sy, ty) + Px(BlockMargin)
    IN {obs \in obstacles :
          /\ ~(obs.id = sourceId \/ obs.id = targetId)
          /\ ~(obs.x + obs.w <= xMin \/ obs.x >= xMax)
          /\ ~(obs.y + obs.h <= yMin \/ obs.y >= yMax)}

findBlockingBoxes(sx, sy, tx, ty, sourceId, targetId, obstacles) ==
    LET xMin == Min2(sx, tx) + Px(BlockMargin)
        xMax == Max2(sx, tx) - Px(BlockMargin)
        yMin == Min2(sy, ty) - Px(BlockMargin)
        yMax == Max2(sy, ty) + Px(BlockMargin)
    IN {obs \in obstacles :
          /\ ~(obs.id = sourceId \/ obs.id = targetId)
          /\ ~(isAncestorOf(obs.id, sourceId) \/ isAncestorOf(obs.id, targetId))
          /\ ~(isAncestorOf(sourceId, obs.id) \/ isAncestorOf(targetId, obs.id))
          /\ ~(obs.x + obs.w <= xMin \/ obs.x >= xMax)
          /\ ~(obs.y + obs.h <= yMin \/ obs.y >= yMax)}

SetMin(S) == CHOOSE x \in S : \A y \in S : x <= y

reroutedPath(sx, sy, tx, ty, blocking, sourceBox) ==
    LET topY == SetMin({b.y : b \in blocking}) - Px(ROUTE_MARGIN)
        botY == SetMax({b.y + b.h : b \in blocking}) + Px(ROUTE_MARGIN)
        avgY == Half(sy + ty)
        routeY == IF Abs(topY - avgY) <= Abs(botY - avgY) THEN topY ELSE botY
        leftEdge == SetMin({b.x : b \in blocking})
        rightEdge == SetMax({b.x + b.w : b \in blocking})
        cx1 == Max2(sx + Px(2), leftEdge - Px(OBS_GAP))
        cx2 == Min2(tx - Px(MIN_RUNIN), rightEdge + Px(OBS_GAP))
        r == Max2(Min2(Min2(Min2(Px(CornerR), Half(Abs(sy - routeY))),
                            Min2(Half(Abs(ty - routeY)), Half(Abs(cx1 - sx)))),
                       Min2(Half(Abs(tx - cx2)), Half(Abs(cx2 - cx1)))), 0)
        d1 == IF routeY < sy THEN -1 ELSE 1
        d2 == IF ty > routeY THEN 1 ELSE -1
    IN <<MoveTo(sx, sy),
         LineTo(cx1 - r, sy),
         QuadTo(cx1, sy, cx1, sy + d1 * r),
         LineTo(cx1, routeY - d1 * r),
         QuadTo(cx1, routeY, cx1 + r, routeY),
         LineTo(cx2 - r, routeY),
         QuadTo(cx2, routeY, cx2, routeY + d2 * r),
         LineTo(cx2, ty - d2 * r),
         QuadTo(cx2, ty, cx2 + r, ty),
         LineTo(tx, ty)>>

\* computeArrowPath, with the values it computes on the way
computeArrowPath(s, t, sourceId, targetId, obstacles) ==
    LET pts == connectionPoints(s, t)
        blocking == findBlockingBoxes(pts.sx, pts.sy, pts.tx, pts.ty, sourceId, targetId, obstacles)
    IN [kind |-> "arrow", src |-> sourceId, tgt |-> targetId, s |-> s, t |-> t,
        pts |-> pts, blocking |-> blocking,
        d |-> IF blocking = {} THEN orthogonalPath(pts.sx, pts.sy, pts.tx, pts.ty)
              ELSE reroutedPath(pts.sx, pts.sy, pts.tx, pts.ty, blocking, s)]

----------------------------------------------------------------------------
(* updateArrows routing the arrow of any one call reference *)

\* the snapshots of the projects with the trees of Graphs and one call
\* reference between two of their functions
RouterGraphs ==
    UNION {{[g EXCEPT !.function_edges = <<e>>] :
               e \in {c \in FnBoxIds(g) \X FnBoxIds(g) : c[1] # c[2]}} : g \in Graphs}

\* the Expanded-Sets with the root in which an expanded module has its
\* parent expanded; expanding a module below a collapsed one changes neither
\* the visible boxes nor the resolved endpoints
ClosedExpandedSets(g) ==
    {E \in SUBSET ModulePaths(g) :
        /\ g.root \in E
        /\ \A p \in E \ {g.root} : JoinSlash(SliceFirst(Segments(p), Len(Segments(p)) - 1)) \in E}

RouterInit ==
    /\ graph \in RouterGraphs
    /\ treeRoot = graph
    /\ expanded \in ClosedExpandedSets(graph)
    /\ collapsed = updateVisibility(graph, expanded)
    /\ arrows = updateArrows(graph, expanded)
    /\ \E mw \in Measures : /\ modBoxes = Layout(graph, mw).mb
                              /\ fnBoxes = Layout(graph, mw).fb
    /\ event = NoEvent
    /\ prev = NoEvent
    /\ probe = [kind |-> "none"]
    /\ RouteIdle
    /\ SortIdle
    /\ ParseIdle
    /\ PollIdle
    /\ EditIdle

\* the second loop of updateArrows computes the path of an arrow
RouteArrow(edge) ==
    /\ route' = computeArrowPath(BoxOf(modBoxes, fnBoxes, edge.src), BoxOf(modBoxes, fnBoxes, edge.tgt),
                                 edge.src, edge.tgt,
                                 VisibleObstacleBoxes(graph, expanded, modBoxes, fnBoxes))
    /\ UNCHANGED <<sortVars, viewVars, probe, parseVars, pollVars, editVars>>

RouterNext == \E edge \in arrows : RouteArrow(edge)

RouterSpec == RouterInit /\ [][RouterNext]_vars

----------------------------------------------------------------------------
(* Claims about the router *)

Routed == route.kind = "arrow"

\* the straight runs of the path: the L commands, from the point before
Runs(d) == {[x1 |-> d[i - 1].x, y1 |-> d[i - 1].y, x2 |-> d[i].x, y2 |-> d[i].y] :
               i \in {j \in 2..Len(d) : d[j].op = "L"}}

\* the bends of the path: the Q commands
Bends(d) == {i \in 1..Len(d) : d[i].op = "Q"}

\* the run passes through the interior of the box
Crosses(run, b) ==
    /\ Min2(run.x1, run.x2) < b.x + b.w /\ Max2(run.x1, run.x2) > b.x
    /\ Min2(run.y1, run.y2) < b.y + b.h /\ Max2(run.y1, run.y2) > b.y

\* the module of the tree that owns the box id, and the ids of the boxes in
\* the tree above and below the box id
ModuleOfId(id) == BeforeColons(id)

KinIds(g, id) ==
    LET w == RootWalk(g, ModuleOfId(id))
        above == {w[i] : i \in 1..Len(w)}
        below == IF IndexOfColons(id) # 0 THEN {}
                 ELSE {k \in ModBoxIds(g) \cup FnBoxIds(g) : ModuleOfId(k) \in TreeSubtree(g, id)}
    IN (above \cup below) \ {id}

\* the visible boxes that are neither an endpoint of the routed arrow nor
\* above or below an endpoint in the tree
UnrelatedObstacles ==
    {b \in VisibleObstacleBoxes(graph, expanded, modBoxes, fnBoxes) :
        /\ b.id \notin {route.src, route.tgt}
        /\ b.id \notin KinIds(graph, route.src) \cup KinIds(graph, route.tgt)}

\* C18: the path of computeArrowPath has no run through the interior of a
\* visible box unrelated to its endpoints; in particular no run of a
\* rerouted path passes through the interior of a blocking box, whether the
\* endpoints are side by side or stacked.
C18_PathCrossesNoObstacle ==
    Routed => \A b \in UnrelatedObstacles \cup route.blocking :
                  \A run \in Runs(route.d) : ~Crosses(run, b)

\* the path is the direct one: a line, or three runs and two bends; the
\* rerouted path has five runs and four bends
DirectPath(d) == Len(d) <= 6

RunHorizontal(d, i) == d[i].op = "L" /\ d[i].y = d[i - 1].y
RunVertical(d, i) == d[i].op = "L" /\ d[i].x = d[i - 1].x

\* the bend d[i] turns a right angle around its control point
RightAngle(d, i) ==
    \/ d[i - 1].y = d[i].cy /\ d[i].cx = d[i].x
    \/ d[i - 1].x = d[i].cx /\ d[i].cy = d[i].y

\* C19 as stated: with no blocking box the path is a direct right-angled
\* path with exactly one bend, horizontal-first when the horizontal
\* displacement dominates and vertical-first otherwise.
C19_Original_OneBend ==
    (Routed /\ route.blocking = {}) =>
        LET d == route.d
            pts == route.pts
        IN /\ DirectPath(d)
           /\ Cardinality(Bends(d)) = 1
           /\ IF Abs(pts.tx - pts.sx) >= Abs(pts.ty - pts.sy)
              THEN RunHorizontal(d, 2) ELSE RunVertical(d, 2)

\* C19: with no blocking box the path is direct: one straight line when the
\* connection points are less than a pixel apart on an axis, otherwise
\* three runs joined by two right-angled bends at the midpoint,
\* horizontal-vertical-horizontal when |dx| >= |dy| and
\* vertical-horizontal-vertical otherwise.
C19_DirectPathShape ==
    (Routed /\ route.blocking = {}) =>
        LET d == route.d
            pts == route.pts
            dx == pts.tx - pts.sx
            dy == pts.ty - pts.sy
        IN /\ d[1] = MoveTo(pts.sx, pts.sy)
           /\ d[Len(d)] = LineTo(pts.tx, pts.ty)
           /\ IF Abs(dy) < Px(1) \/ Abs(dx) < Px(1)
              THEN Len(d) = 2
              ELSE /\ Len(d) = 6
                   /\ Bends(d) = {3, 5}
                   /\ RightAngle(d, 3) /\ RightAngle(d, 5)
                   /\ IF Abs(dx) >= Abs(dy)
                      THEN /\ RunHorizontal(d, 2) /\ RunVertical(d, 4) /\ RunHorizontal(d, 6)
                           /\ 2 * d[4].x = pts.sx + pts.tx
                      ELSE /\ RunVertical(d, 2) /\ RunHorizontal(d, 4) /\ RunVertical(d, 6)
                           /\ 2 * d[4].y = pts.sy + pts.ty

\* two sibling modules of different height side by side: the vertical
\* displacement dominates and the path runs vertical-horizontal-vertical
C19_Witness ==
    /\ Routed /\ route.blocking = {}
    /\ route.src = PAB /\ route.tgt = PA
    /\ Abs(route.pts.tx - route.pts.sx) < Abs(route.pts.ty - route.pts.sy)
    /\ Len(route.d) = 6
    /\ RunVertical(route.d, 2)

\* the box has a point of its interior in the bounding rectangle of the
\* straight connector from (sx, sy) to (tx, ty)
IntersectsConnector(b, pts) ==
    /\ b.x < Max2(pts.sx, pts.tx) /\ b.x + b.w > Min2(pts.sx, pts.tx)
    /\ b.y < Max2(pts.sy, pts.ty) /\ b.y + b.h > Min2(pts.sy, pts.ty)

----------------------------------------------------------------------------
(* The order in which sort_children emits the nodes it frees *)

\* no sibling declares a dependency on cp: its in-degree starts at zero
InitiallyFree(cp) == \A x \in Siblings : ~DependsOn(x, cp)

\* the nodes in the order in which they reached in-degree zero: the ones
\* emitted so far followed by the ones waiting
FreedOrder == result \o queue

\* C24: sort_children emits the nodes in the order in which they reached
\* in-degree zero: the queue starts as the siblings of in-degree zero in
\* declaration order, every iteration emits the node freed first and puts
\* the nodes it frees behind all nodes freed before, and the nodes left
\* over follow the emitted ones.
C24_EmittedInFreedOrder ==
    [][/\ (pc = "parse" /\ pc' = "loop") =>
              /\ result' = <<>>
              /\ queue' = SelectSeq(children, InitiallyFree)
       /\ (pc = "loop" /\ pc' = "loop") =>
              /\ Len(result') = Len(result) + 1
              /\ Len(FreedOrder') >= Len(FreedOrder)
              /\ SubSeq(FreedOrder', 1, Len(FreedOrder)) = FreedOrder
              /\ {FreedOrder'[i] : i \in (Len(FreedOrder) + 1)..Len(FreedOrder')}
                    = {d \in Siblings : in_deg[d] > 0 /\ in_deg'[d] <= 0}
       /\ (pc = "loop" /\ pc' = "done") =>
              /\ queue = <<>>
              /\ SubSeq(result', 1, Len(result)) = result]_vars

C24_Witness ==
    /\ SortDone
    /\ children = <<ChildPath(ParentPath, Str1("c")), ChildPath(ParentPath, Str1("a")),
                    ChildPath(ParentPath, Str1("b"))>>
    /\ DepsGet(child_deps, Str1("a")) = <<Str1("c")>>
    /\ DepsGet(child_deps, Str1("b")) = <<>>
    /\ DepsGet(child_deps, Str1("c")) = <<>>
    /\ result = <<ChildPath(ParentPath, Str1("a")), ChildPath(ParentPath, Str1("b")),
                  ChildPath(ParentPath, Str1("c"))>>

\* C25: the children list sort_children returns is a permutation of the
\* child paths discovered in the file: the same paths, each as many times
\* as it was declared.
C25_SortedChildrenArePermutation ==
    SortDone =>
        /\ \A i \in 1..Len(result) : result[i] \in Siblings
        /\ \A cp \in Siblings : Count(cp, result) = Count(cp, children)

----------------------------------------------------------------------------
(* Reloads, among them the ones that stop in buildTree *)

\* the snapshot parse_speck_tree returns when the files of the modules in S
\* exist and declare the children in D: a child of D \ S is listed by its
\* parent and has no entry of its own
SnapshotDeclaring(S, D) ==
    [modules |-> [p \in S |->
        [name |-> LastSegment(p),
         path |-> p,
         children |-> SelectSeq(UChildren(p), LAMBDA c : c \in D),
         functions |-> UFunctions(p),
         depth |-> Cardinality(SepPositions(p, "/"))]],
     function_edges |-> SelectSeq(UEdges, LAMBDA e : BeforeColons(e[1]) \in S),
     root |-> PR]

\* the source trees the project goes through while it is edited
ReloadTrees == {S \in Trees : S \subseteq {PR, PA, PB}}

ReloadGraphs == {Snapshot(S) : S \in ReloadTrees}

\* the snapshots taken while the file of a declared child is missing
BrokenGraphs ==
    UNION {{SnapshotDeclaring(S, D) :
                D \in {X \in SUBSET {PR, PA, PB} :
                          /\ S \subseteq X /\ S # X
                          /\ \A p \in X \ S : UParent(p) \in S}} :
           S \in ReloadTrees}

\* loadAndRender when buildTree throws: graph has been assigned, the
\* statements after buildTree are not reached
loadAndRenderThrows(g) ==
    /\ buildTree(g).error
    /\ graph' = g
    /\ UNCHANGED <<treeRoot, expanded, collapsed, arrows, modBoxes, fnBoxes>>

\* a snapshot that buildTree cannot read arrives
LoadFails(g) ==
    /\ loadAndRenderThrows(g)
    /\ Handled("loadError", <<>>, FALSE)
    /\ UNCHANGED <<sortVars, probe, routeVars, parseVars, pollVars, editVars>>

ReloadNext ==
    \/ \E g \in ReloadGraphs : Load(g)
    \/ \E g \in BrokenGraphs : LoadFails(g)
    \/ \E path \in UPaths, ctrl \in BOOLEAN : Click(path, ctrl)
    \/ ExpandAll
    \/ CollapseAll
    \/ \E type \in {"expandAll", "collapseAll"} : ButtonBeforeLoad(type)

ReloadSpec == Init /\ [][ReloadNext]_vars

\* with a path of E, E holds the paths of all modules above it
AncestorClosed(E) ==
    \A p \in E : \A q \in UPaths : StartsWith(p, q \o <<"/">>) => q \in E

\* C26: once a snapshot has been loaded, whatever clicks on visible module
\* boxes, subtree clicks, Expand All, Collapse All and reloads follow, the
\* Expanded-Set holds only module paths of the current graph and holds,
\* with a path, the paths of all its ancestors.
C26_ExpandedWithinGraphAndClosed ==
    graph # NullGraph =>
        /\ expanded \subseteq ModulePaths(graph)
        /\ AncestorClosed(expanded)

----------------------------------------------------------------------------
(* What resolveVisible returns under any Expanded-Set *)

\* C27: for every Expanded-Set, ancestor-closed or not, and every endpoint
\* in a module of the tree, the box resolveVisible returns is a visible
\* obstacle: a module path it returns satisfies isModVisible and is not
\* expanded, a function id it returns satisfies isFnVisible, and the box of
\* a declared function resolves to one of the boxes getVisibleObstacles
\* collects.
C27_ResolvedBoxIsVisibleObstacle ==
    probe.kind = "fn" =>
        /\ IndexOfColons(probe.resolved) = 0 =>
               /\ isModVisible(expanded, probe.resolved)
               /\ probe.resolved \notin expanded
        /\ IndexOfColons(probe.resolved) # 0 =>
               /\ probe.resolved = probe.id
               /\ isFnVisible(expanded, probe.resolved)
        /\ probe.id \in FnBoxIds(graph) =>
               probe.resolved \in getVisibleObstacles(graph, expanded)

C27_Witness ==
    /\ probe.kind = "fn"
    /\ probe.id = FnId(PAX, Str1("h"))
    /\ expanded = {PR, PAX}
    /\ ~AncestorClosed(expanded)
    /\ probe.resolved = PA
    /\ PA \in getVisibleObstacles(graph, expanded)

----------------------------------------------------------------------------
(* The version token and the auto-reload of the viewer.  The disk is the   *)
(* record files: the .speck files present, their modification times and the *)
(* time now of the clock that stamps them.                                  *)

MaxTime == 2

\* the files of the project: both are edited, the file of module a is also
\* deleted and created again
PollFiles == {DiskFile(RootRel, q) : q \in {PR, PA}}

\* the root file declares module a; the file of a declares no module
PollDeclared == {PA}

\* max(f.stat().st_mtime for f in speck_files), 0 without files
get_speck_version(fs) ==
    IF fs.present = {} THEN 0
    ELSE SetMax({fs.mtime[f] : f \in fs.present})

\* the body of the /graph/version response
VersionData(fs) == [version |-> get_speck_version(fs)]

\* the disk when the server starts: the root file exists
PollDisks ==
    {[root_file |-> RootRel, present |-> P, declared |-> PollDeclared, nodefs |-> {},
      mtime |-> [f \in P |-> 1], now |-> 1] :
        P \in {X \in SUBSET PollFiles : RootRel \in X}}

PollInit ==
    /\ files \in PollDisks
    /\ parsed = [kind |-> "none"]
    /\ currentVersion = NullVersion
    /\ initial = [pc |-> "graph"]
    /\ poll = [pc |-> "idle"]
    /\ ViewIdle
    /\ SortIdle
    /\ RouteIdle
    /\ EditIdle

DiskFrame == UNCHANGED <<parsed, sortVars, viewVars, probe, routeVars, pollVars, editVars>>

\* the clock of the file system advances
Tick ==
    /\ files.now < MaxTime
    /\ files' = [files EXCEPT !.now = @ + 1]
    /\ DiskFrame

\* a file is created, with def declarations or without
CreateFile(f, defs) ==
    /\ f \notin files.present
    /\ files' = [files EXCEPT !.present = @ \cup {f},
                              !.nodefs = IF defs THEN @ \ {f} ELSE @ \cup {f},
                              !.mtime = [g \in files.present \cup {f} |->
                                            IF g = f THEN files.now ELSE files.mtime[g]]]
    /\ DiskFrame

\* the def declarations of a file are removed or put back
ModifyDefs(f) ==
    /\ f \in files.present
    /\ files' = [files EXCEPT !.nodefs = IF f \in @ THEN @ \ {f} ELSE @ \cup {f},
                              !.mtime = [@ EXCEPT ![f] = files.now]]
    /\ DiskFrame

\* a file is deleted
DeleteFile(f) ==
    /\ f \in files.present
    /\ files' = [files EXCEPT !.present = @ \ {f},
                              !.nodefs = @ \ {f},
                              !.mtime = [g \in files.present \ {f} |-> files.mtime[g]]]
    /\ DiskFrame

ClientFrame == UNCHANGED <<parseVars, sortVars, probe, routeVars, editVars>>

\* the server answers the fetch('/graph') of the initial loadAndRender
InitialGetGraph ==
    /\ initial.pc = "graph"
    /\ initial' = [pc |-> "gotGraph", graph |-> parse_speck_tree(files)]
    /\ UNCHANGED <<viewVars, currentVersion, poll>>
    /\ ClientFrame

\* the response arrives: loadAndRender runs to its end and the then-callback
\* sends fetch('/graph/version'); when buildTree throws the chain ends
InitialRender ==
    /\ initial.pc = "gotGraph"
    /\ IF buildTree(initial.graph).error
       THEN /\ loadAndRenderThrows(initial.graph)
            /\ initial' = [pc |-> "failed"]
       ELSE /\ loadAndRender(initial.graph, BrowserMeasure)
            /\ initial' = [pc |-> "version"]
    /\ UNCHANGED <<event, prev, currentVersion, poll>>
    /\ ClientFrame

\* the server answers the fetch('/graph/version') of the then-callback
InitialGetVersion ==
    /\ initial.pc = "version"
    /\ initial' = [pc |-> "gotVersion", data |-> VersionData(files)]
    /\ UNCHANGED <<viewVars, currentVersion, poll>>
    /\ ClientFrame

\* currentVersion = data.version at the end of the then-callback
InitialSetVersion ==
    /\ initial.pc = "gotVersion"
    /\ currentVersion' = initial.data
    /\ initial' = [pc |-> "done"]
    /\ UNCHANGED <<viewVars, poll>>
    /\ ClientFrame

\* the interval fires and the server answers its fetch('/graph/version')
PollGetVersion ==
    /\ poll.pc = "idle"
    /\ poll' = [pc |-> "gotVersion", data |-> VersionData(files)]
    /\ UNCHANGED <<viewVars, currentVersion, initial>>
    /\ ClientFrame

\* the callback compares data.version with currentVersion
PollCompare ==
    /\ poll.pc = "gotVersion"
    /\ IF currentVersion # NullVersion /\ poll.data # currentVersion
       THEN /\ poll' = [pc |-> "graph", data |-> poll.data]
            /\ UNCHANGED currentVersion
       ELSE IF currentVersion = NullVersion
       THEN /\ currentVersion' = poll.data
            /\ poll' = [pc |-> "idle"]
       ELSE /\ poll' = [pc |-> "idle"]
            /\ UNCHANGED currentVersion
    /\ UNCHANGED <<viewVars, initial>>
    /\ ClientFrame

\* the server answers the fetch('/graph') of the reload
PollGetGraph ==
    /\ poll.pc = "graph"
    /\ poll' = [pc |-> "gotGraph", data |-> poll.data, graph |-> parse_speck_tree(files)]
    /\ UNCHANGED <<viewVars, currentVersion, initial>>
    /\ ClientFrame

\* the response arrives: loadAndRender runs to its end and currentVersion
\* is set; when buildTree throws, "catch(e) {}" ends the callback
PollRender ==
    /\ poll.pc = "gotGraph"
    /\ IF buildTree(poll.graph).error
       THEN /\ loadAndRenderThrows(poll.graph)
            /\ UNCHANGED currentVersion
       ELSE /\ loadAndRender(poll.graph, BrowserMeasure)
            /\ currentVersion' = poll.data
    /\ poll' = [pc |-> "idle"]
    /\ UNCHANGED <<event, prev, initial>>
    /\ ClientFrame

PollNext ==
    \/ Tick
    \/ \E f \in PollFiles \ {RootRel}, defs \in BOOLEAN : CreateFile(f, defs)
    \/ \E f \in PollFiles : ModifyDefs(f)
    \/ \E f \in PollFiles \ {RootRel} : DeleteFile(f)
    \/ InitialGetGraph
    \/ InitialRender
    \/ InitialGetVersion
    \/ InitialSetVersion
    \/ PollGetVersion
    \/ PollCompare
    \/ PollGetGraph
    \/ PollRender

PollSpec == PollInit /\ [][PollNext]_vars

\* C23: the version token changes whenever the graph on disk changes: a
\* creation, modification or deletion of a source file that changes the
\* result of parse_speck_tree changes the result of get_speck_version.
C23_VersionChangesWithGraph ==
    [][parse_speck_tree(files') # parse_speck_tree(files)
          => get_speck_version(files') # get_speck_version(files)]_vars

\* neither the initial loadAndRender nor the one of a poll is under way
NoLoadInFlight ==
    /\ initial.pc \notin {"graph", "gotGraph"}
    /\ poll.pc \notin {"graph", "gotGraph"}

\* C30: whenever no load is in flight and currentVersion equals the version
\* token of the server, the graph on the page is the parse of the source
\* files as they are now.
C30_CurrentVersionMeansCurrentGraph ==
    (NoLoadInFlight /\ currentVersion = VersionData(files)) =>
        /\ graph = parse_speck_tree(files)
        /\ treeRoot = graph

----------------------------------------------------------------------------
(* The diagram editor (mermaid-server.py): the page with its handlers, the  *)
(* server with one DiagramState per level, and the editors that write the   *)
(* files from outside.  A content is a record naming who wrote it; a        *)
(* request is answered in two steps, the server handling it and the page    *)
(* receiving the response.                                                  *)

\* keystroke bursts, clicks and external edits of one run
MaxActions == 2

\* _last_written_mtime = None, currentVersion = null
NoMtime == 0

Levels == {"high", "low"}

\* currentLevel === 'high' ? 'low' : 'high'
OtherLevel(l) == IF l = "high" THEN "low" ELSE "high"

\* the text of the file of a level when the server starts
StartContent(l) == [by |-> l, id |-> 0]

Idle == [pc |-> "idle"]

\* the page after its initial load of the high level; the file of the low
\* level was written at the same time as the other or later
EditInit ==
    /\ \E m \in {1, 2} :
          server = [file |-> [l \in Levels |->
                                 [content |-> StartContent(l),
                                  mtime |-> IF l = "high" THEN 1 ELSE m,
                                  last_written_mtime |-> NoMtime]],
                    clock |-> 2,
                    external |-> 0]
    /\ client = [currentLevel |-> "high",
                 currentVersion |-> 1,
                 dirty |-> FALSE,
                 saveTimer |-> FALSE,
                 editor |-> StartContent("high"),
                 shows |-> "high",
                 synced |-> StartContent("high"),
                 typed |-> 0,
                 clicks |-> 0,
                 autosave |-> Idle,
                 ctrls |-> Idle,
                 toggle |-> Idle,
                 poll |-> Idle]
    /\ ViewIdle
    /\ SortIdle
    /\ RouteIdle
    /\ ParseIdle
    /\ PollIdle

EditFrame == UNCHANGED <<sortVars, viewVars, probe, routeVars, parseVars, pollVars>>

\* the user and the other editors act MaxActions times at most
Budget == client.typed + client.clicks + server.external < MaxActions

\* the request saveToServer(editor.value) sends
PostRequest ==
    [pc |-> "post", level |-> client.currentLevel,
     content |-> client.editor, shows |-> client.shows]

\* DiagramState.write(content) at the next modification time
write(l, content) ==
    [server EXCEPT !.file[l] = [content |-> content,
                                mtime |-> server.clock + 1,
                                last_written_mtime |-> server.clock + 1],
                   !.clock = @ + 1]

\* another program writes the file of level l
ExternalEdit(l) ==
    /\ Budget
    /\ server' = [server EXCEPT !.file[l].content = [by |-> "ext", id |-> server.external + 1],
                                !.file[l].mtime = server.clock + 1,
                                !.clock = @ + 1,
                                !.external = @ + 1]
    /\ UNCHANGED client
    /\ EditFrame

\* the input handler: the user types into the editor
Input ==
    /\ Budget
    /\ client' = [client EXCEPT !.dirty = TRUE,
                                !.editor = [by |-> "user", id |-> client.typed + 1],
                                !.typed = @ + 1,
                                !.saveTimer = TRUE]
    /\ UNCHANGED server
    /\ EditFrame

\* 800 ms after the last input the timer callback calls saveToServer
TimerFires ==
    /\ client.saveTimer
    /\ client.autosave.pc = "idle"
    /\ client' = [client EXCEPT !.saveTimer = FALSE, !.autosave = PostRequest]
    /\ UNCHANGED server
    /\ EditFrame

\* Ctrl+S: clearTimeout(saveTimer) and saveToServer
CtrlS ==
    /\ Budget
    /\ client.ctrls.pc = "idle"
    /\ client' = [client EXCEPT !.saveTimer = FALSE, !.ctrls = PostRequest,
                                !.clicks = @ + 1]
    /\ UNCHANGED server
    /\ EditFrame

\* click on the level button: a dirty editor is saved first, otherwise the
\* level is switched at once and loadFromServer is called
ToggleClick ==
    /\ Budget
    /\ client.toggle.pc = "idle"
    /\ client' = IF client.dirty
                 THEN [client EXCEPT !.saveTimer = FALSE, !.toggle = PostRequest,
                                     !.clicks = @ + 1]
                 ELSE [client EXCEPT !.currentLevel = OtherLevel(@),
                                     !.toggle = [pc |-> "get",
                                                 level |-> OtherLevel(client.currentLevel)],
                                     !.clicks = @ + 1]
    /\ UNCHANGED server
    /\ EditFrame

\* do_POST /diagram for the request of handler h
ServePost(h) ==
    /\ client[h].pc = "post"
    /\ server' = write(client[h].level, client[h].content)
    /\ client' = [client EXCEPT ![h] = [pc |-> "posted", content |-> client[h].content,
                                        version |-> server.clock + 1]]
    /\ EditFrame

\* do_GET /diagram for the request of handler h
ServeGet(h) ==
    /\ client[h].pc = "get"
    /\ client' = [client EXCEPT ![h] = [pc |-> "got", level |-> client[h].level,
                                        content |-> server.file[client[h].level].content,
                                        version |-> server.file[client[h].level].mtime]]
    /\ UNCHANGED server
    /\ EditFrame

\* do_GET /diagram/version for the request of the poll
ServeVersion ==
    /\ client.poll.pc = "version"
    /\ LET f == server.file[client.poll.level]
       IN client' = [client EXCEPT !.poll = [pc |-> "versionGot", version |-> f.mtime,
                                             external |-> f.mtime # f.last_written_mtime]]
    /\ UNCHANGED server
    /\ EditFrame

\* variant of SaveDone: dirty is left as it is
SaveDoneStillDirty(h) ==
    /\ client[h].pc = "posted"
    /\ client' = [client EXCEPT !.currentVersion = client[h].version,
                                !.synced = client[h].content,
                                ![h] = Idle]
    /\ UNCHANGED server
    /\ EditFrame

\* the response of a save arrives at the timer callback (h = "autosave") or
\* at the Ctrl+S handler (h = "ctrls"): currentVersion = data.version; dirty = false
SaveDone(h) ==
    /\ client[h].pc = "posted"
    /\ client' = [client EXCEPT !.currentVersion = client[h].version,
                                !.dirty = FALSE,
                                !.synced = client[h].content,
                                ![h] = Idle]
    /\ UNCHANGED server
    /\ EditFrame

\* the response of the save arrives at the toggle handler: the level is
\* switched and loadFromServer is called
ToggleSaved ==
    /\ client.toggle.pc = "posted"
    /\ client' = [client EXCEPT !.currentVersion = client.toggle.version,
                                !.dirty = FALSE,
                                !.synced = client.toggle.content,
                                !.currentLevel = OtherLevel(@),
                                !.toggle = [pc |-> "get",
                                            level |-> OtherLevel(client.currentLevel)]]
    /\ UNCHANGED server
    /\ EditFrame

\* the response of loadFromServer arrives at the toggle handler (h =
\* "toggle") or at the poll (h = "poll"): editor.value = content
Loaded(h) ==
    /\ client[h].pc = "got"
    /\ client' = [client EXCEPT !.currentVersion = client[h].version,
                                !.editor = client[h].content,
                                !.shows = client[h].level,
                                !.synced = client[h].content,
                                ![h] = Idle]
    /\ UNCHANGED server
    /\ EditFrame

\* the interval fires: fetch('/diagram/version?level=' + currentLevel)
PollFires ==
    /\ client.poll.pc = "idle"
    /\ client' = [client EXCEPT !.poll = [pc |-> "version", level |-> client.currentLevel]]
    /\ UNCHANGED server
    /\ EditFrame

\* the response arrives at the poll: reload when the version is new, the
\* change external and the editor clean
PollChecked ==
    /\ client.poll.pc = "versionGot"
    /\ client' = IF /\ client.currentVersion # NoMtime
                    /\ client.poll.version # client.currentVersion
                    /\ client.poll.external
                    /\ ~client.dirty
                 THEN [client EXCEPT !.poll = [pc |-> "get", level |-> client.currentLevel]]
                 ELSE [client EXCEPT !.poll = Idle]
    /\ UNCHANGED server
    /\ EditFrame

\* what the server and the page do without the user
EditProgress ==
    \/ TimerFires
    \/ \E h \in {"autosave", "ctrls", "toggle"} : ServePost(h)
    \/ \E h \in {"toggle", "poll"} : ServeGet(h)
    \/ ServeVersion
    \/ \E h \in {"autosave", "ctrls"} : SaveDone(h)
    \/ ToggleSaved
    \/ \E h \in {"toggle", "poll"} : Loaded(h)
    \/ PollFires
    \/ PollChecked

EditNext ==
    \/ \E l \in Levels : ExternalEdit(l)
    \/ Input
    \/ CtrlS
    \/ ToggleClick
    \/ EditProgress

EditSpec == EditInit /\ [][EditNext]_vars

\* the server keeps answering, the responses arrive, the timer and the
\* interval fire
EditFairSpec ==
    /\ EditSpec
    /\ WF_vars(TimerFires)
    /\ \A h \in {"autosave", "ctrls", "toggle"} : WF_vars(ServePost(h))
    /\ \A h \in {"toggle", "poll"} : WF_vars(ServeGet(h))
    /\ WF_vars(ServeVersion)
    /\ \A h \in {"autosave", "ctrls"} : WF_vars(SaveDone(h))
    /\ WF_vars(ToggleSaved)
    /\ \A h \in {"toggle", "poll"} : WF_vars(Loaded(h))
    /\ WF_vars(PollFires)
    /\ WF_vars(PollChecked)

----------------------------------------------------------------------------
(* Claims about the diagram editor *)

SaveHandlers == {"autosave", "ctrls", "toggle"}

\* C28: a save of the page never writes content of one level into the file
\* of the other: the content of every POST sent with level L was loaded
\* from level L or typed into content loaded from level L.
C28_SaveCarriesContentOfItsLevel ==
    \A h \in SaveHandlers :
        client[h].pc = "post" => client[h].shows = client[h].level

\* C29: whenever dirty is false, the content of the editor is the content
\* most recently loaded from or saved to the server.
C29_CleanEditorIsSynced ==
    ~client.dirty => client.editor = client.synced

\* the contents the other editors write
ExternalContents == {[by |-> "ext", id |-> i] : i \in 1..MaxActions}

\* C21: every external edit of the file of the level shown is detected by
\* the poll and its content is eventually loaded into the editor, unless
\* the user leaves the level or a later external edit replaces the content.
C21_ExternalEditReachesEditor ==
    \A l \in Levels : \A c \in ExternalContents :
        (client.currentLevel = l /\ server.file[l].content = c)
            ~> \/ client.editor = c
               \/ client.currentLevel # l
               \/ (server.file[l].content # c /\ server.file[l].content.by = "ext")

\* the contents the user types
UserContents == {[by |-> "user", id |-> i] : i \in 1..MaxActions}

----------------------------------------------------------------------------
(* The layout of files that declare a function name more than once *)

\* the snapshot of the tree S when the file of module p holds a second
\* definition, with an empty body, of its first function: the def loop of
\* parse_module appends the name once for every match
Redefined(S, p) ==
    [Snapshot(S) EXCEPT !.modules[p].functions = @ \o <<Head(@)>>]

\* the snapshots of the source trees, with and without such a file
DefGraphs ==
    Graphs \cup UNION {{Redefined(S, p) : p \in {PAX, PB} \cap S} : S \in Trees}

\* a snapshot arrives in a browser of any font metrics
StackNext == \E g \in DefGraphs, mw \in Measures : LoadWith(g, mw)

StackSpec == Init /\ [][StackNext]_vars

\* the boxes a and b have no interior point in common
Disjoint(a, b) ==
    \/ a.x + a.w <= b.x
    \/ b.x + b.w <= a.x
    \/ a.y + a.h <= b.y
    \/ b.y + b.h <= a.y

\* C31: after a full layout, for every module the boxes of its child
\* modules are pairwise disjoint with a horizontal gap of at least MOD_GAP
\* between consecutive children in sorted order, the boxes of its functions
\* are pairwise disjoint and stacked in declaration order, and no function
\* box of the module overlaps a box of one of its child modules.
C31_SiblingBoxesAreSeparated ==
    graph # NullGraph =>
        \A p \in ModulePaths(graph) :
            LET kids == graph.modules[p].children
                fns == graph.modules[p].functions
                kb(i) == modBoxes[kids[i]]
                fb(i) == fnBoxes[FnId(p, fns[i])]
            IN /\ \A i, j \in 1..Len(kids) : i < j => Disjoint(kb(i), kb(j))
               /\ \A i \in 1..(Len(kids) - 1) :
                      kb(i + 1).x - (kb(i).x + kb(i).w) >= MOD_GAP
               /\ \A i, j \in 1..Len(fns) :
                      i < j => /\ Disjoint(fb(i), fb(j))
                               /\ fb(i).x = fb(j).x
                               /\ fb(i).y + fb(i).h <= fb(j).y
               /\ \A i \in 1..Len(fns) : \A j \in 1..Len(kids) :
                      Disjoint(fb(i), kb(j))

====
